---- MODULE Spec2Model ----
(***************************************************************************)
(* Model of the pmengine trading loop (src/pmengine/src): the Engine::run  *)
(* select loop, the RiskManager, the OrderManager, the PositionTracker and *)
(* the MarketDataHub book map.                                             *)
(*                                                                         *)
(* rust_decimal::Decimal values are modelled as exact rationals <<n, d>>   *)
(* in lowest terms with d > 0, so that equal numbers are equal values      *)
(* (Decimal compares numerically: 0.50 == 0.5).                            *)
(***************************************************************************)
EXTENDS Integers, Sequences, FiniteSets, TLC

----------------------------------------------------------------------------
(* Decimal arithmetic                                                      *)

RECURSIVE Gcd(_, _)
Gcd(a, b) == IF b = 0 THEN a ELSE Gcd(b, a % b)

IAbs(n) == IF n < 0 THEN -n ELSE n

Dec(n, d) ==
    LET g == Gcd(IAbs(n), IAbs(d))
        s == IF d < 0 THEN -1 ELSE 1
    IN  <<(s * n) \div g, (s * d) \div g>>

DecZero == <<0, 1>>
DecTwo == <<2, 1>>
DecInt(n) == <<n, 1>>

DecAdd(a, b) == Dec(a[1] * b[2] + b[1] * a[2], a[2] * b[2])
DecSub(a, b) == Dec(a[1] * b[2] - b[1] * a[2], a[2] * b[2])
DecMul(a, b) == Dec(a[1] * b[1], a[2] * b[2])
DecDiv(a, b) == Dec(a[1] * b[2], a[2] * b[1])
DecNeg(a) == <<-a[1], a[2]>>
DecAbs(a) == <<IAbs(a[1]), a[2]>>
DecLt(a, b) == a[1] * b[2] < b[1] * a[2]
DecLe(a, b) == a[1] * b[2] <= b[1] * a[2]
DecGt(a, b) == DecLt(b, a)
DecGe(a, b) == DecLe(b, a)
DecMin(a, b) == IF DecLe(a, b) THEN a ELSE b
DecMax(a, b) == IF DecGe(a, b) THEN a ELSE b

(* Option<T>: None is the empty sequence, Some(v) the one-element sequence *)
None == <<>>
Some(v) == <<v>>
IsSome(o) == o # <<>>
Unwrap(o) == o[1]
UnwrapOr(o, dflt) == IF o = <<>> THEN dflt ELSE o[1]

----------------------------------------------------------------------------
(* Program constants                                                       *)

WARMUP_WS_UPDATES == 100
DefaultMaxLoss == 25
DefaultMaxOpenOrders == 10

(* Bounds of the model                                                     *)

MaxTickCount == 3
MaxSignals == 2
MaxOrders == 3
WsCountCap == 100
MaxFillQueue == 1
HubCapacity == 2
MaxFillFactor == 1
MaxApiOrders == 2
MaxPositionFills == 3
MaxFetched == 1
MaxRiskOrders == 3

Tokens == {"t1"}

(* Inputs: the prices and sizes strategies quote, the configured limits,   *)
(* the --max-ticks values and the book snapshots the feed delivers.        *)
SignalPrices == {Dec(1, 2)}
SignalSizes == {DecInt(50), DecInt(60)}

Level(p, s) == [price |-> p, size |-> s]

WsSnapshots ==
    { [bids |-> <<Level(Dec(1, 10), DecInt(100))>>,
       asks |-> <<Level(Dec(1, 5), DecInt(100))>>],
      [bids |-> <<Level(Dec(4, 5), DecInt(100))>>,
       asks |-> <<Level(Dec(9, 10), DecInt(100))>>] }

----------------------------------------------------------------------------
VARIABLES
    cfg,                \* dry_run, skip_warmup, max_ticks, limits
    pc,                 \* position of Engine::run
    tick_count,
    ws_update_count,
    warmup_complete,
    circuit_breaker_triggered,
    open_orders,        \* RiskManager: order id -> tracked notional
    reserved,           \* RiskManager: reservation id -> pending notional
    orders,             \* OrderManager: order id -> Order
    next_order_id,
    positions,          \* PositionTracker: token -> Position
    books,              \* MarketDataHub: token -> OrderBook
    fills,              \* the fills channel
    shutdown_requested,
    shutdown,           \* Engine.shutdown flag, on_shutdown calls, result
    signal_index,       \* signals of the running tick handled so far
    last,               \* what the signal loop did with the latest one
    tx,                 \* MarketDataHub: the broadcast channel's buffer
    receivers,          \* MarketDataHub: receiver -> its place in the buffer
    call,               \* the latest call made on a component, its result
    subscribed_tokens,  \* Engine: the tokens of the market-data stream
    market_info,        \* Engine: token -> MarketInfo given to strategies
    ws_needs_reconnect, \* Engine: a refresh found a token to subscribe
    ws_stream,          \* Engine::run: the market-data stream, if any
    shutdown_rx         \* Engine::run: ctrl-c messages waiting in the channel

vars == <<cfg, pc, tick_count, ws_update_count, warmup_complete,
          circuit_breaker_triggered, open_orders, reserved, orders,
          next_order_id, positions, books, fills, shutdown_requested,
          shutdown, signal_index, last, tx, receivers, call,
          subscribed_tokens, market_info, ws_needs_reconnect, ws_stream,
          shutdown_rx>>

(* The variables of the components driven call by call.                    *)
api_vars == <<tx, receivers, call>>

loop_vars == <<cfg, pc, tick_count, ws_update_count, warmup_complete,
               shutdown_requested, shutdown, signal_index, last>>

risk_vars == <<circuit_breaker_triggered, open_orders, reserved>>

order_vars == <<orders, next_order_id, fills>>

discovery_vars == <<subscribed_tokens, market_info, ws_needs_reconnect,
                    ws_stream, shutdown_rx>>

----------------------------------------------------------------------------
(* Signals (strategy.rs is the Signal enum's home; the variants are those  *)
(* the engine, the risk manager and the order manager match on)            *)

Hold == [type |-> "Hold", token_id |-> "", price |-> DecZero, size |-> DecZero]
ShutdownSignal ==
    [type |-> "Shutdown", token_id |-> "", price |-> DecZero, size |-> DecZero]
Cancel(t) ==
    [type |-> "Cancel", token_id |-> t, price |-> DecZero, size |-> DecZero]
Buy(t, p, s) == [type |-> "Buy", token_id |-> t, price |-> p, size |-> s]
Sell(t, p, s) == [type |-> "Sell", token_id |-> t, price |-> p, size |-> s]

IsTrade(sig) == sig.type \in {"Buy", "Sell"}

TradeSignals ==
    {Buy(t, p, s) : t \in Tokens, p \in SignalPrices, s \in SignalSizes}
      \cup {Sell(t, p, s) : t \in Tokens, p \in SignalPrices, s \in SignalSizes}

StrategySignals ==
    {Hold, ShutdownSignal} \cup {Cancel(t) : t \in Tokens} \cup TradeSignals

----------------------------------------------------------------------------
(* Position and PositionTracker (position.rs)                               *)

RECURSIVE DecSum(_, _)
DecSum(f, S) ==
    IF S = {} THEN DecZero
    ELSE LET x == CHOOSE y \in S : TRUE
         IN  DecAdd(f[x], DecSum(f, S \ {x}))

PositionNew ==
    [size |-> DecZero, avg_entry_price |-> DecZero, realized_pnl |-> DecZero,
     unrealized_pnl |-> DecZero, last_price |-> None]

(* A fill through zero keeping the entry price of the closed side.        *)
FlipEntryPriceKeep(avg, flipped, price) == avg

(* A fill larger than the position it closes opens the opposite side at    *)
(* the fill price.                                                         *)
FlipEntryPrice(avg, flipped, price) == IF flipped THEN price ELSE avg

PositionApplyFill(pos, fill) ==
    LET old_size == pos.size
        fill_value == DecMul(fill.price, fill.size)
    IN
    IF fill.is_buy THEN
        IF DecGe(old_size, DecZero) THEN
            LET old_value == DecMul(pos.avg_entry_price, old_size)
                new_size == DecAdd(old_size, fill.size)
            IN  [pos EXCEPT
                   !.avg_entry_price =
                       IF DecGt(new_size, DecZero)
                       THEN DecDiv(DecAdd(old_value, fill_value), new_size)
                       ELSE @,
                   !.size = new_size]
        ELSE
            LET cover_size == DecMin(fill.size, DecNeg(old_size))
                new_long == DecSub(fill.size, cover_size)
                size2 == DecAdd(old_size, fill.size)
            IN  [pos EXCEPT
                   !.realized_pnl =
                       DecAdd(@, DecMul(cover_size,
                                        DecSub(pos.avg_entry_price, fill.price))),
                   !.size = size2,
                   !.avg_entry_price =
                       FlipEntryPrice(@, DecGt(new_long, DecZero)
                                           /\ DecGt(size2, DecZero),
                                      fill.price)]
    ELSE
        IF DecLe(old_size, DecZero) THEN
            LET old_value == DecMul(pos.avg_entry_price, DecNeg(old_size))
                new_size == DecSub(old_size, fill.size)
            IN  [pos EXCEPT
                   !.avg_entry_price =
                       IF DecLt(new_size, DecZero)
                       THEN DecDiv(DecAdd(old_value, fill_value), DecNeg(new_size))
                       ELSE @,
                   !.size = new_size]
        ELSE
            LET close_size == DecMin(fill.size, old_size)
                new_short == DecSub(fill.size, close_size)
                size2 == DecSub(old_size, fill.size)
            IN  [pos EXCEPT
                   !.realized_pnl =
                       DecAdd(@, DecMul(close_size,
                                        DecSub(fill.price, pos.avg_entry_price))),
                   !.size = size2,
                   !.avg_entry_price =
                       FlipEntryPrice(@, DecGt(new_short, DecZero)
                                           /\ DecLt(size2, DecZero),
                                      fill.price)]

PositionUpdatePrice(pos, price) ==
    [pos EXCEPT
       !.last_price = Some(price),
       !.unrealized_pnl =
           IF DecGt(pos.size, DecZero)
           THEN DecMul(pos.size, DecSub(price, pos.avg_entry_price))
           ELSE IF DecLt(pos.size, DecZero)
           THEN DecMul(DecNeg(pos.size), DecSub(pos.avg_entry_price, price))
           ELSE DecZero]

PositionNotional(pos) ==
    DecMul(DecAbs(pos.size), UnwrapOr(pos.last_price, pos.avg_entry_price))

GetOrCreate(ps, t) ==
    IF t \in DOMAIN ps THEN ps
    ELSE [x \in DOMAIN ps \cup {t} |-> IF x = t THEN PositionNew ELSE ps[x]]

(* apply_fill on a position that is created anew at every fill.            *)
TrackerApplyFillFresh(ps, fill) ==
    LET created == GetOrCreate(ps, fill.token_id)
    IN  [created EXCEPT ![fill.token_id] = PositionApplyFill(PositionNew, fill)]

TrackerApplyFill(ps, fill) ==
    LET created == GetOrCreate(ps, fill.token_id)
    IN  [created EXCEPT ![fill.token_id] = PositionApplyFill(@, fill)]

UpdatePrices(ps, t, price) ==
    IF t \in DOMAIN ps
    THEN [ps EXCEPT ![t] = PositionUpdatePrice(@, price)]
    ELSE ps

TotalRealizedPnl(ps) ==
    DecSum([t \in DOMAIN ps |-> ps[t].realized_pnl], DOMAIN ps)

TotalUnrealizedPnl(ps) ==
    DecSum([t \in DOMAIN ps |-> ps[t].unrealized_pnl], DOMAIN ps)

TotalNotional(ps) ==
    DecSum([t \in DOMAIN ps |-> PositionNotional(ps[t])], DOMAIN ps)

----------------------------------------------------------------------------
(* Finite maps                                                             *)

EmptyMap == [x \in {} |-> 0]

MapPut(m, k, v) == [x \in DOMAIN m \cup {k} |-> IF x = k THEN v ELSE m[x]]

MapRemove(m, k) == [x \in DOMAIN m \ {k} |-> m[x]]

----------------------------------------------------------------------------
(* RiskManager (risk.rs)                                                    *)

RiskLimits(max_position_size, max_total_exposure) ==
    [max_position_size |-> max_position_size,
     max_total_exposure |-> max_total_exposure,
     max_loss |-> DecInt(DefaultMaxLoss),
     max_open_orders |-> DefaultMaxOpenOrders,
     max_order_size |-> DecDiv(max_total_exposure, DecTwo)]

Approved(sig) == [tag |-> "Approved", signal |-> sig]
Reduced(sig) == [tag |-> "Reduced", signal |-> sig]
Rejected == [tag |-> "Rejected", signal |-> Hold]

OpenOrderNotional(oo) ==
    DecSum([id \in DOMAIN oo |-> oo[id].notional], DOMAIN oo)

CurrentExposure(ps, oo) == DecAdd(TotalNotional(ps), OpenOrderNotional(oo))

RemainingCapacity(ps, oo, limits) ==
    DecMax(DecSub(limits.max_total_exposure, CurrentExposure(ps, oo)), DecZero)

(* check_pnl following the P&L instead of latching.                        *)
CheckPnlUnlatched(triggered, ps, limits) ==
    DecLt(DecAdd(TotalRealizedPnl(ps), TotalUnrealizedPnl(ps)),
          DecNeg(limits.max_loss))

(* check_pnl comparing with max_loss instead of -max_loss.                 *)
CheckPnlNoNeg(triggered, ps, limits) ==
    IF DecLt(DecAdd(TotalRealizedPnl(ps), TotalUnrealizedPnl(ps)),
             limits.max_loss)
    THEN TRUE ELSE triggered

CheckPnl(triggered, ps, limits) ==
    LET total_pnl == DecAdd(TotalRealizedPnl(ps), TotalUnrealizedPnl(ps))
    IN  IF DecLt(total_pnl, DecNeg(limits.max_loss)) THEN TRUE ELSE triggered

WithSize(sig, size) == [sig EXCEPT !.size = size]

(* check_order's total exposure check with the limit hit answered by a     *)
(* rejection instead of a reduced order.                                   *)
ExposureCheckRejects(sig, ps, oo, limits) ==
    IF DecGt(DecAdd(CurrentExposure(ps, oo), DecMul(sig.price, sig.size)),
             limits.max_total_exposure)
    THEN Rejected
    ELSE Approved(sig)

(* check_order's total exposure check (positions + open orders + order).   *)
ExposureCheck(sig, ps, oo, limits) ==
    LET notional == DecMul(sig.price, sig.size)
        position_notional == TotalNotional(ps)
        open_order_notional == OpenOrderNotional(oo)
        current_exposure == DecAdd(position_notional, open_order_notional)
    IN  IF DecGt(DecAdd(current_exposure, notional), limits.max_total_exposure)
        THEN LET allowed == DecSub(limits.max_total_exposure, current_exposure)
             IN  IF DecLe(allowed, DecZero) THEN Rejected
                 ELSE Reduced(WithSize(sig, DecDiv(allowed, sig.price)))
        ELSE Approved(sig)

CheckOrder(sig, ps, oo, limits) ==
    LET price == sig.price
        size == sig.size
        is_buy == sig.type = "Buy"
        notional == DecMul(price, size)
    IN
    IF DecGt(notional, limits.max_order_size)
    THEN Reduced(WithSize(sig, DecDiv(limits.max_order_size, price)))
    ELSE IF sig.token_id \in DOMAIN ps
    THEN LET pos == ps[sig.token_id]
             projected_size == IF is_buy THEN DecAdd(pos.size, size)
                               ELSE DecSub(pos.size, size)
             projected_notional == DecMul(DecAbs(projected_size), price)
         IN  IF DecGt(projected_notional, limits.max_position_size)
             THEN LET allowed_change ==
                          DecSub(DecDiv(limits.max_position_size, price),
                                 DecAbs(pos.size))
                  IN  IF DecLe(allowed_change, DecZero) THEN Rejected
                      ELSE Reduced(WithSize(sig, allowed_change))
             ELSE ExposureCheck(sig, ps, oo, limits)
    ELSE ExposureCheck(sig, ps, oo, limits)

CheckSignal(sig, triggered, ps, oo, limits) ==
    IF triggered THEN Rejected
    ELSE IF sig.type \in {"Hold", "Cancel"} THEN Approved(sig)
    ELSE CheckOrder(sig, ps, oo, limits)

OrderClosed(oo, order_id) ==
    IF order_id \in DOMAIN oo THEN MapRemove(oo, order_id) ELSE oo

(* The reservation ledger the engine calls (reserve_exposure,              *)
(* confirm_reservation, release_reservation): pending reservations are     *)
(* kept by reservation id, confirmed ones become the tracked open orders   *)
(* that order_closed removes.                                              *)

ReservedNotional(rs) ==
    DecSum([id \in DOMAIN rs |-> rs[id].notional], DOMAIN rs)

LedgerExposure(ps, oo, rs) ==
    DecAdd(CurrentExposure(ps, oo), ReservedNotional(rs))

FreshReservationId(rs) ==
    CHOOSE id \in 1..(Cardinality(DOMAIN rs) + 1) : id \notin DOMAIN rs

ReserveExposure(notional, ps, oo, rs, limits, fresh_id) ==
    IF DecGt(DecAdd(LedgerExposure(ps, oo, rs), notional),
             limits.max_total_exposure)
    THEN None
    ELSE Some(fresh_id)

ConfirmReservation(ledger, reservation_id, order_id) ==
    IF reservation_id \in DOMAIN ledger.reserved
    THEN [reserved |-> MapRemove(ledger.reserved, reservation_id),
          open_orders |->
              MapPut(ledger.open_orders, order_id,
                     ledger.reserved[reservation_id])]
    ELSE ledger

ReleaseReservation(ledger, reservation_id) ==
    [ledger EXCEPT !.reserved =
        IF reservation_id \in DOMAIN @ THEN MapRemove(@, reservation_id) ELSE @]

----------------------------------------------------------------------------
(* PolymarketClient (client.rs) and OrderManager (order.rs)                 *)

Ok(v) == [ok |-> TRUE, value |-> v]
Err == [ok |-> FALSE, value |-> None]

(* place_limit_order: in dry-run the id is "dry_run_<now in ms>", so two   *)
(* orders placed within one millisecond get the same id; a live order gets *)
(* a fresh exchange-assigned id or the request fails.                      *)
PlaceLimitOrder(dry_run, issued) ==
    IF dry_run
    THEN {Ok(id) : id \in {issued, issued + 1} \ {0}}
    ELSE {Ok(issued + 1), Err}

IsActive(order) == order.status \in {"Pending", "Open", "PartiallyFilled"}

PlaceOrder(os, sig, placed) ==
    IF placed.ok
    THEN [result |-> Ok(Some(placed.value)),
          orders |-> MapPut(os, placed.value,
                            [token_id |-> sig.token_id,
                             is_buy |-> sig.type = "Buy",
                             price |-> sig.price,
                             size |-> sig.size,
                             filled_size |-> DecZero,
                             status |-> "Open"])]
    ELSE [result |-> Err, orders |-> os]

(* cancel_orders: the batched cancel is a no-op in dry-run and may fail    *)
(* against the exchange.                                                   *)
CancelOrders(dry_run) == IF dry_run THEN {TRUE} ELSE {TRUE, FALSE}

ActiveIds(os) == {id \in DOMAIN os : IsActive(os[id])}

CancelAllOrders(os, cancel_ok) ==
    IF ActiveIds(os) # {} /\ ~cancel_ok
    THEN [ok |-> FALSE, orders |-> os]
    ELSE [ok |-> TRUE,
          orders |-> [id \in DOMAIN os |->
                        IF IsActive(os[id])
                        THEN [os[id] EXCEPT !.status = "Cancelled"]
                        ELSE os[id]]]

(* cancel_order: an active order is cancelled at the exchange first and    *)
(* marked Cancelled only when that call succeeds.                          *)
CancelOrderCalls(dry_run) == IF dry_run THEN {TRUE} ELSE {TRUE, FALSE}

(* cancel_order marking the order Cancelled before the exchange answers.    *)
CancelOrderOptimistic(os, order_id, cancel_ok) ==
    IF order_id \in DOMAIN os /\ IsActive(os[order_id])
    THEN [ok |-> cancel_ok,
          orders |-> [os EXCEPT ![order_id].status = "Cancelled"]]
    ELSE [ok |-> TRUE, orders |-> os]

CancelOrder(os, order_id, cancel_ok) ==
    IF order_id \in DOMAIN os /\ IsActive(os[order_id])
    THEN IF cancel_ok
         THEN [ok |-> TRUE,
               orders |-> [os EXCEPT ![order_id].status = "Cancelled"]]
         ELSE [ok |-> FALSE, orders |-> os]
    ELSE [ok |-> TRUE, orders |-> os]

(* cancel_all: the token's active orders are cancelled one by one, in the  *)
(* map's iteration order, up to the first failure; done is the set         *)
(* cancelled before it.                                                    *)
ToCancel(os, token_id) ==
    {id \in DOMAIN os : os[id].token_id = token_id /\ IsActive(os[id])}

CancelAllOutcomes(os, token_id, dry_run) ==
    IF dry_run THEN {ToCancel(os, token_id)} ELSE SUBSET ToCancel(os, token_id)

CancelAll(os, token_id, done) ==
    [ok |-> done = ToCancel(os, token_id),
     orders |-> [id \in DOMAIN os |->
                   IF id \in done THEN [os[id] EXCEPT !.status = "Cancelled"]
                   ELSE os[id]]]

(* execute: Hold does nothing, Cancel cancels the token's orders, Buy and  *)
(* Sell place an order.                                                    *)
Execute(os, sig, placed, done) ==
    IF sig.type = "Hold" THEN [result |-> Ok(None), orders |-> os]
    ELSE IF sig.type = "Cancel"
    THEN LET cancelled == CancelAll(os, sig.token_id, done)
         IN  [result |-> IF cancelled.ok THEN Ok(None) ELSE Err,
              orders |-> cancelled.orders]
    ELSE PlaceOrder(os, sig, placed)

OrderProcessFill(order, size) ==
    LET filled == DecAdd(order.filled_size, size)
    IN  [order EXCEPT
           !.filled_size = filled,
           !.status = IF DecGe(filled, order.size) THEN "Filled"
                      ELSE "PartiallyFilled"]

FillOf(order_id, order, price, size) ==
    [order_id |-> order_id, token_id |-> order.token_id,
     is_buy |-> order.is_buy, price |-> price, size |-> size]

----------------------------------------------------------------------------
(* OrderBook and MarketDataHub (orderbook.rs)                               *)

OrderBookNew == [bids |-> <<>>, asks |-> <<>>]

UpdateFromWs(book, update) ==
    [book EXCEPT !.bids = update.bids, !.asks = update.asks]

BestBid(book) == IF book.bids = <<>> THEN None ELSE Some(book.bids[1])
BestAsk(book) == IF book.asks = <<>> THEN None ELSE Some(book.asks[1])

MidPrice(book) ==
    IF IsSome(BestBid(book)) /\ IsSome(BestAsk(book))
    THEN Some(DecDiv(DecAdd(Unwrap(BestBid(book)).price,
                            Unwrap(BestAsk(book)).price), DecTwo))
    ELSE None

RECURSIVE Depth(_)
Depth(levels) ==
    IF levels = <<>> THEN DecZero
    ELSE DecAdd(levels[1].size, Depth(Tail(levels)))

BidDepth(book) == Depth(book.bids)
AskDepth(book) == Depth(book.asks)

(* The whole level taken, whatever is still wanted.                        *)
LevelFillWhole(remaining, level) == level.size

LevelFill(remaining, level) == DecMin(remaining, level.size)

(* The walk of vwap_buy / vwap_sell down a ladder: what is still unfilled  *)
(* and what the filled part costs.                                         *)
RECURSIVE WalkLevels(_, _, _)
WalkLevels(levels, remaining, total) ==
    IF levels = <<>> \/ DecLe(remaining, DecZero)
    THEN [remaining |-> remaining, total |-> total]
    ELSE LET fill == LevelFill(remaining, levels[1])
         IN  WalkLevels(Tail(levels), DecSub(remaining, fill),
                        DecAdd(total, DecMul(fill, levels[1].price)))

(* A price for whatever part was filled.                                   *)
VwapResultPartial(walked, size) == Some(DecDiv(walked.total, size))

VwapResult(walked, size) ==
    IF DecGt(walked.remaining, DecZero) THEN None
    ELSE Some(DecDiv(walked.total, size))

VwapBuy(book, size) == VwapResult(WalkLevels(book.asks, size, DecZero), size)

VwapSell(book, size) == VwapResult(WalkLevels(book.bids, size, DecZero), size)

(* Ladders ordered strictly by price, best level first: bids descending, *)
(* asks ascending.                                                        *)
Descending(levels) ==
    \A i \in 1..(Len(levels) - 1) : DecGt(levels[i].price, levels[i + 1].price)

Ascending(levels) ==
    \A i \in 1..(Len(levels) - 1) : DecLt(levels[i].price, levels[i + 1].price)

(* process_book_update keeping the book a token already has.               *)
ProcessBookUpdateKeep(bs, t, update) ==
    IF t \in DOMAIN bs THEN bs
    ELSE MapPut(bs, t, UpdateFromWs(OrderBookNew, update))

ProcessBookUpdate(bs, t, update) ==
    LET book == IF t \in DOMAIN bs THEN bs[t] ELSE OrderBookNew
    IN  MapPut(bs, t, UpdateFromWs(book, update))

GetBook(bs, t) == IF t \in DOMAIN bs THEN Some(bs[t]) ELSE None

InitBook(bs, t) == IF t \in DOMAIN bs THEN bs ELSE MapPut(bs, t, OrderBookNew)

(* The broadcast channel (async_broadcast, overflow mode set by            *)
(* MarketDataHub::new): the buffer holds the pending events, oldest first; *)
(* a receiver is at an offset into the buffer and is marked overflowed     *)
(* when an event it had not received was discarded. The hub keeps the      *)
(* template receiver rx, which never receives.                             *)
MarketEvent(t, book) == [token_id |-> t, book |-> book]

ReceiverAt(offset, overflowed) == [offset |-> offset, overflowed |-> overflowed]

TemplateReceiver == [r \in {"rx"} |-> ReceiverAt(0, FALSE)]

Channel(buffer, rs) == [tx |-> buffer, receivers |-> rs]

(* A full channel without overflow mode, the new event lost.               *)
BroadcastDropNew(ch, capacity, event) ==
    IF Len(ch.tx) < capacity
    THEN Channel(Append(ch.tx, event), ch.receivers)
    ELSE ch

(* Sender::broadcast in overflow mode: a full buffer gives up its oldest   *)
(* event to make room.                                                     *)
Broadcast(ch, capacity, event) ==
    IF Len(ch.tx) < capacity
    THEN Channel(Append(ch.tx, event), ch.receivers)
    ELSE Channel(Append(Tail(ch.tx), event),
                 [r \in DOMAIN ch.receivers |->
                    IF ch.receivers[r].offset = 0
                    THEN ReceiverAt(0, TRUE)
                    ELSE ReceiverAt(ch.receivers[r].offset - 1,
                                    ch.receivers[r].overflowed)])

(* MarketDataHub::subscribe: rx.clone(), a receiver with the same events   *)
(* queued as the template receiver.                                        *)
Subscribe(ch, r) ==
    Channel(ch.tx, MapPut(ch.receivers, r, ch.receivers["rx"]))

(* Receiver::recv with an event or an overflow to report: an overflowed    *)
(* receiver learns of it first, then events come oldest first; an event    *)
(* every receiver has received leaves the buffer.                          *)
CanRecv(ch, r) ==
    ch.receivers[r].overflowed \/ ch.receivers[r].offset < Len(ch.tx)

Recv(ch, r) ==
    LET me == ch.receivers[r]
    IN  IF me.overflowed
        THEN [result |-> "Overflowed",
              channel |-> Channel(ch.tx, [ch.receivers EXCEPT
                                            ![r] = ReceiverAt(me.offset, FALSE)])]
        ELSE LET moved == [ch.receivers EXCEPT
                             ![r] = ReceiverAt(me.offset + 1, FALSE)]
                 all_past == \A o \in DOMAIN moved : moved[o].offset > 0
             IN  [result |-> ch.tx[me.offset + 1],
                  channel |->
                      IF all_past
                      THEN Channel(Tail(ch.tx),
                                   [o \in DOMAIN moved |->
                                      ReceiverAt(moved[o].offset - 1,
                                                 moved[o].overflowed)])
                      ELSE Channel(ch.tx, moved)]

----------------------------------------------------------------------------
(* Engine (engine.rs)                                                       *)

(* A stream over the first subscribed token only.                          *)
ConnectFirstOnly(subscribed, subscribe_ok) ==
    IF subscribed = <<>> \/ ~subscribe_ok THEN None
    ELSE Some([asset_ids |-> <<Head(subscribed)>>, errored |-> FALSE])

(* The stream the 'reconnect loop opens: none without subscriptions or     *)
(* when the subscription fails, else one over all subscribed tokens that   *)
(* has yielded no error yet.                                               *)
Connect(subscribed, subscribe_ok) ==
    IF subscribed = <<>> \/ ~subscribe_ok THEN None
    ELSE Some([asset_ids |-> subscribed, errored |-> FALSE])

(* Config as Engine::new receives it: --dry-run, --skip-warmup, --max-ticks *)
(* and the two configured limits.                                          *)
Config(dry_run, skip_warmup, max_ticks, max_position_size, max_total_exposure) ==
    [dry_run |-> dry_run, skip_warmup |-> skip_warmup, max_ticks |-> max_ticks,
     limits |-> RiskLimits(max_position_size, max_total_exposure)]

Configs ==
    { Config(FALSE, TRUE, 0, DecInt(50), DecInt(50)),
      Config(TRUE, TRUE, 0, DecInt(50), DecInt(50)),
      Config(FALSE, FALSE, 3, DecInt(20), DecInt(50)) }

Init ==
    /\ cfg \in Configs
    /\ pc = "select"
    /\ tick_count = 0
    /\ ws_update_count = 0
    /\ warmup_complete = FALSE
    /\ circuit_breaker_triggered = FALSE
    /\ open_orders = EmptyMap
    /\ reserved = EmptyMap
    /\ orders = EmptyMap
    /\ next_order_id = 0
    /\ positions = EmptyMap
    /\ books = [t \in Tokens |-> OrderBookNew]
    /\ fills = <<>>
    /\ shutdown_requested = FALSE
    /\ shutdown = [flag |-> FALSE, on_shutdown_calls |-> 0, result |-> "running"]
    /\ signal_index = 0
    /\ last = None
    /\ tx = <<>>
    /\ receivers = TemplateReceiver
    /\ call = None
    /\ subscribed_tokens = <<"t1">>
    /\ market_info = EmptyMap
    /\ ws_needs_reconnect = FALSE
    /\ ws_stream = Connect(subscribed_tokens, TRUE)
    /\ shutdown_rx = 0

(* Engine::shutdown: cancel all active orders, then shut the strategies    *)
(* down; a failed batched cancel returns the error before on_shutdown.     *)
EngineShutdown(os, sd, cancel_ok) ==
    LET cancelled == CancelAllOrders(os, cancel_ok)
    IN  [orders |-> cancelled.orders,
         shutdown |->
             IF cancelled.ok
             THEN [flag |-> TRUE,
                   on_shutdown_calls |-> sd.on_shutdown_calls + 1,
                   result |-> "ok"]
             ELSE [flag |-> TRUE,
                   on_shutdown_calls |-> sd.on_shutdown_calls,
                   result |-> "error"]]

MaxTicksReached(max_ticks, count) == max_ticks > 0 /\ count >= max_ticks

(* A warmup gate that lets every tick through.                             *)
WarmupGateOpen(complete, skip_warmup, updates) == TRUE

(* The warmup gate of a tick: whether warmup is complete after it.         *)
WarmupGate(complete, skip_warmup, updates) ==
    IF complete THEN TRUE
    ELSE IF skip_warmup THEN TRUE
    ELSE updates >= WARMUP_WS_UPDATES

(* The tick handler up to the strategies' on_tick.                         *)
TickHandler(count) ==
    /\ tick_count' = count
    /\ IF MaxTicksReached(cfg.max_ticks, count)
       THEN \E cancel_ok \in CancelOrders(cfg.dry_run) :
              LET done == EngineShutdown(orders, shutdown, cancel_ok)
              IN  /\ orders' = done.orders
                  /\ shutdown' = done.shutdown
                  /\ pc' = "stopped"
                  /\ UNCHANGED <<warmup_complete, circuit_breaker_triggered>>
       ELSE LET complete ==
                    WarmupGate(warmup_complete, cfg.skip_warmup, ws_update_count)
                halted ==
                    CheckPnl(circuit_breaker_triggered, positions, cfg.limits)
            IN  /\ warmup_complete' = complete
                /\ circuit_breaker_triggered' =
                       IF complete THEN halted ELSE circuit_breaker_triggered
                /\ pc' = IF complete /\ ~halted THEN "signals" ELSE "select"
                /\ UNCHANGED <<orders, shutdown>>
    /\ shutdown_requested' = FALSE
    /\ signal_index' = 0
    /\ last' = None
    /\ UNCHANGED <<cfg, ws_update_count, open_orders, reserved, next_order_id, positions, books, fills>>
    /\ UNCHANGED <<api_vars, discovery_vars>>

Tick ==
    /\ pc = "select"
    /\ tick_count < MaxTickCount
    /\ TickHandler(tick_count + 1)

(* The order details the signal loop extracts from a checked signal.       *)
OrderDetails(s) == IF IsTrade(s) THEN Some(s) ELSE None

(* The loop going on to execute whatever reserve_exposure answered.        *)
ReservationIgnored(reservation) == TRUE

ReservationGranted(reservation) == IsSome(reservation)

(* The Err arm forgetting to release the reservation.                      *)
HandleExecuteResultKeep(ledger, reservation_id, result) ==
    IF result.ok /\ IsSome(result.value)
    THEN ConfirmReservation(ledger, reservation_id, Unwrap(result.value))
    ELSE IF result.ok
    THEN ReleaseReservation(ledger, reservation_id)
    ELSE ledger

(* The engine's handling of OrderManager::execute's result.                *)
HandleExecuteResult(ledger, reservation_id, result) ==
    IF result.ok /\ IsSome(result.value)
    THEN ConfirmReservation(ledger, reservation_id, Unwrap(result.value))
    ELSE IF result.ok
    THEN ReleaseReservation(ledger, reservation_id)
    ELSE ReleaseReservation(ledger, reservation_id)

(* What the loop did with one signal: the risk check's verdict, the signal *)
(* it went on with, the ledger's exposure before the check and with the    *)
(* reservation, whether OrderManager::execute was called and its result,   *)
(* and the same for the signal handled just before it in the tick.         *)
LogEntry(sig, check, sent, before, reserved_at, executed, result, prior) ==
    [signal |-> sig, check |-> check, sent |-> sent,
     exposure_before |-> before, exposure_reserved |-> reserved_at,
     executed |-> executed, result |-> result, prior |-> prior]

PriorOf(entry) ==
    IF entry = None THEN None
    ELSE LET e == Unwrap(entry)
         IN  Some([signal |-> e.signal, check |-> e.check, sent |-> e.sent,
                   exposure_before |-> e.exposure_before,
                   result |-> e.result])

(* The flag following the latest signal only.                              *)
ShutdownRequestedLatest(requested, sig) == sig.type = "Shutdown"

(* shutdown_requested after the loop has seen sig: a Shutdown sets it and  *)
(* nothing in the loop clears it.                                          *)
ShutdownRequested(requested, sig) == requested \/ sig.type = "Shutdown"

(* One iteration of the signal loop; the strategies' signals are drawn as  *)
(* the loop consumes them.                                                 *)
ProcessSignal(sig) ==
    LET before == LedgerExposure(positions, open_orders, reserved)
        checked == CheckSignal(sig, circuit_breaker_triggered, positions,
                               open_orders, cfg.limits)
        s == checked.signal
        notional == DecMul(s.price, s.size)
        rid == FreshReservationId(reserved)
        reservation == ReserveExposure(notional, positions, open_orders,
                                       reserved, cfg.limits, rid)
        pending == [reserved |->
                        MapPut(reserved, rid,
                               [token_id |-> s.token_id, notional |-> notional]),
                    open_orders |-> open_orders]
        prior == PriorOf(last)
        Skip(check, result) ==
            /\ last' = Some(LogEntry(sig, check, s, before, None, FALSE,
                                     result, prior))
            /\ UNCHANGED <<open_orders, reserved, orders, next_order_id>>
    IN
    /\ pc = "signals"
    /\ signal_index < MaxSignals
    /\ IsTrade(sig) => next_order_id < MaxOrders
    /\ signal_index' = signal_index + 1
    /\ shutdown_requested' = ShutdownRequested(shutdown_requested, sig)
    /\ IF sig.type \in {"Hold", "Shutdown"} THEN Skip("none", "skipped")
       ELSE IF checked.tag = "Rejected" THEN Skip("Rejected", "rejected")
       ELSE IF ~IsSome(OrderDetails(s)) THEN Skip(checked.tag, "skipped")
       ELSE IF ~ReservationGranted(reservation)
       THEN Skip(checked.tag, "reservation rejected")
       ELSE \E placed \in PlaceLimitOrder(cfg.dry_run, next_order_id) :
              LET done == PlaceOrder(orders, s, placed)
                  ledger == HandleExecuteResult(pending, rid, done.result)
              IN  /\ orders' = done.orders
                  /\ next_order_id' =
                         IF placed.ok /\ placed.value > next_order_id
                         THEN placed.value ELSE next_order_id
                  /\ reserved' = ledger.reserved
                  /\ open_orders' = ledger.open_orders
                  /\ last' = Some(LogEntry(sig, checked.tag, s, before,
                                  Some(DecAdd(before, notional)), TRUE,
                                  IF ~done.result.ok THEN "error"
                                  ELSE IF IsSome(done.result.value)
                                  THEN "placed" ELSE "no order",
                                  prior))
    /\ UNCHANGED <<cfg, pc, tick_count, ws_update_count, warmup_complete,
                   circuit_breaker_triggered, positions, books, fills,
                   shutdown>>
    /\ UNCHANGED <<api_vars, discovery_vars>>

(* The end of the tick handler: a strategy's Shutdown stops the engine.    *)
EndTick ==
    /\ pc = "signals"
    /\ IF shutdown_requested
       THEN \E cancel_ok \in CancelOrders(cfg.dry_run) :
              LET done == EngineShutdown(orders, shutdown, cancel_ok)
              IN  /\ orders' = done.orders
                  /\ shutdown' = done.shutdown
                  /\ pc' = "stopped"
       ELSE /\ pc' = "select"
            /\ UNCHANGED <<orders, shutdown>>
    /\ signal_index' = 0
    /\ last' = None
    /\ UNCHANGED <<cfg, tick_count, ws_update_count, warmup_complete,
                   circuit_breaker_triggered, open_orders, reserved, next_order_id, positions, books, fills,
                   shutdown_requested>>
    /\ UNCHANGED <<api_vars, discovery_vars>>

(* A select! arm running while another handler's body is under way.       *)
SelectReadyAlways(p) == TRUE

(* The loop polls its select! arms only between two handler bodies: every  *)
(* handler runs to its end on the engine's task before the next is chosen. *)
SelectReady(p) == p = "select"

(* The fill handler.                                                       *)
FillReceived ==
    /\ SelectReady(pc)
    /\ fills # <<>>
    /\ LET fill == Head(fills)
       IN  /\ positions' = TrackerApplyFill(positions, fill)
           /\ open_orders' = OrderClosed(open_orders, fill.order_id)
    /\ fills' = Tail(fills)
    /\ UNCHANGED <<cfg, pc, tick_count, ws_update_count, warmup_complete,
                   circuit_breaker_triggered, reserved,
                   orders, next_order_id, books, shutdown_requested, shutdown,
                   signal_index, last>>
    /\ UNCHANGED <<api_vars, discovery_vars>>

(* The market-data handler. ws_update_count is read by the warmup gate     *)
(* alone, and only in a run without --skip-warmup whose warmup is not yet  *)
(* complete: the model counts the updates the gate can still tell apart    *)
(* (up to WsCountCap) and leaves the counter alone once no code reads it.  *)
CountUpdate(count, complete, skip_warmup) ==
    IF complete \/ skip_warmup \/ count >= WsCountCap THEN count
    ELSE count + 1

BookUpdate(t, update) ==
    /\ SelectReady(pc)
    /\ ws_update_count' = CountUpdate(ws_update_count, warmup_complete, cfg.skip_warmup)
    /\ books' = ProcessBookUpdate(books, t, update)
    /\ positions' =
           LET mid == MidPrice(books'[t])
           IN  IF IsSome(mid) THEN UpdatePrices(positions, t, Unwrap(mid))
               ELSE positions
    /\ UNCHANGED <<cfg, pc, tick_count, warmup_complete,
                   circuit_breaker_triggered, open_orders, reserved, orders, next_order_id, fills,
                   shutdown_requested, shutdown, signal_index, last>>
    /\ UNCHANGED <<api_vars, discovery_vars>>

(* The ctrl-c handler.                                                     *)
Interrupt ==
    /\ SelectReady(pc)
    /\ \E cancel_ok \in CancelOrders(cfg.dry_run) :
         LET done == EngineShutdown(orders, shutdown, cancel_ok)
         IN  /\ orders' = done.orders
             /\ shutdown' = done.shutdown
    /\ pc' = "stopped"
    /\ UNCHANGED <<cfg, tick_count, ws_update_count, warmup_complete,
                   circuit_breaker_triggered, open_orders, reserved, next_order_id, positions, books, fills,
                   shutdown_requested, signal_index, last>>
    /\ UNCHANGED <<api_vars, discovery_vars>>

(* OrderManager::process_fill, called for an order the exchange fills (at  *)
(* its limit price and in full) between two handlers of the loop.          *)
FillSizes(order) == {order.size}

ProcessFill(order_id, size) ==
    /\ pc = "select"
    /\ ~cfg.dry_run
    /\ order_id \in DOMAIN orders
    /\ DecLt(orders[order_id].filled_size, orders[order_id].size)
    /\ Len(fills) < MaxFillQueue
    /\ orders' = [orders EXCEPT ![order_id] = OrderProcessFill(@, size)]
    /\ fills' = Append(fills, FillOf(order_id, orders[order_id],
                                     orders[order_id].price, size))
    /\ UNCHANGED <<cfg, pc, tick_count, ws_update_count, warmup_complete,
                   circuit_breaker_triggered, open_orders, reserved, next_order_id, positions, books,
                   shutdown_requested, shutdown, signal_index, last>>
    /\ UNCHANGED <<api_vars, discovery_vars>>

Next ==
    \/ Tick
    \/ \E sig \in StrategySignals : ProcessSignal(sig)
    \/ EndTick
    \/ FillReceived
    \/ \E t \in Tokens, update \in WsSnapshots : BookUpdate(t, update)
    \/ Interrupt
    \/ \E id \in DOMAIN orders :
         \E size \in FillSizes(orders[id]) : ProcessFill(id, size)

Spec == Init /\ [][Next]_vars

----------------------------------------------------------------------------
(* MarketDataHub driven call by call: process_book_update, init_book,      *)
(* subscribe and a subscriber's recv, on a hub as MarketDataHub::new makes *)
(* it.                                                                     *)

HubTokens == {"t1", "t2"}

Subscribers == {"s1"}

(* A snapshot with bids in ascending order, a level of size zero and a     *)
(* best bid above the best ask.                                            *)
BadSnapshot ==
    [bids |-> <<Level(Dec(3, 5), DecInt(10)), Level(Dec(7, 10), DecZero)>>,
     asks |-> <<Level(Dec(1, 2), DecInt(10))>>]

HubSnapshots == WsSnapshots \cup {BadSnapshot}

Called(op, t, arg, result) ==
    Some([op |-> op, token_id |-> t, arg |-> arg, result |-> result])

LiveConfig == Config(FALSE, TRUE, 0, DecInt(50), DecInt(50))

InitIdle ==
    /\ cfg = LiveConfig
    /\ pc = "select"
    /\ tick_count = 0
    /\ ws_update_count = 0
    /\ warmup_complete = FALSE
    /\ circuit_breaker_triggered = FALSE
    /\ open_orders = EmptyMap
    /\ reserved = EmptyMap
    /\ orders = EmptyMap
    /\ next_order_id = 0
    /\ positions = EmptyMap
    /\ fills = <<>>
    /\ shutdown_requested = FALSE
    /\ shutdown = [flag |-> FALSE, on_shutdown_calls |-> 0, result |-> "running"]
    /\ signal_index = 0
    /\ last = None
    /\ call = None
    /\ subscribed_tokens = <<>>
    /\ market_info = EmptyMap
    /\ ws_needs_reconnect = FALSE
    /\ ws_stream = None
    /\ shutdown_rx = 0

InitHub ==
    /\ InitIdle
    /\ books = EmptyMap
    /\ tx = <<>>
    /\ receivers = TemplateReceiver

HubProcessBookUpdate(t, update) ==
    /\ books' = ProcessBookUpdate(books, t, update)
    /\ LET ch == Broadcast(Channel(tx, receivers), HubCapacity,
                           MarketEvent(t, books'[t]))
       IN  /\ tx' = ch.tx
           /\ receivers' = ch.receivers
    /\ call' = Called("process_book_update", t, update, None)
    /\ UNCHANGED <<loop_vars, discovery_vars, risk_vars, order_vars, positions>>

HubInitBook(t) ==
    /\ books' = InitBook(books, t)
    /\ call' = Called("init_book", t, None, None)
    /\ UNCHANGED <<loop_vars, discovery_vars, risk_vars, order_vars, positions, tx, receivers>>

HubSubscribe(r) ==
    /\ r \notin DOMAIN receivers
    /\ LET ch == Subscribe(Channel(tx, receivers), r)
       IN  /\ tx' = ch.tx
           /\ receivers' = ch.receivers
    /\ call' = Called("subscribe", r, None, None)
    /\ UNCHANGED <<loop_vars, discovery_vars, risk_vars, order_vars, positions, books>>

HubRecv(r) ==
    /\ r \in DOMAIN receivers
    /\ CanRecv(Channel(tx, receivers), r)
    /\ LET got == Recv(Channel(tx, receivers), r)
       IN  /\ tx' = got.channel.tx
           /\ receivers' = got.channel.receivers
           /\ call' = Called("recv", r, None, Some(got.result))
    /\ UNCHANGED <<loop_vars, discovery_vars, risk_vars, order_vars, positions, books>>

NextHub ==
    \/ \E t \in HubTokens, update \in HubSnapshots : HubProcessBookUpdate(t, update)
    \/ \E t \in HubTokens : HubInitBook(t)
    \/ \E r \in Subscribers : HubSubscribe(r)
    \/ \E r \in Subscribers : HubRecv(r)

SpecHub == InitHub /\ [][NextHub]_vars

----------------------------------------------------------------------------
(* OrderManager driven call by call against the live exchange: execute,    *)
(* cancel_order, cancel_all, cancel_all_orders and process_fill in any     *)
(* order, the engine's fill handler taking the fills from the channel.     *)

OrderSignals ==
    {Hold} \cup {Cancel(t) : t \in Tokens}
      \cup {Buy(t, p, DecInt(50)) : t \in Tokens, p \in SignalPrices}
      \cup {Sell(t, p, DecInt(50)) : t \in Tokens, p \in SignalPrices}

FillCallSizes == {DecInt(25), DecInt(50)}

InitOrders ==
    /\ InitIdle
    /\ books = [t \in Tokens |-> OrderBookNew]
    /\ tx = <<>>
    /\ receivers = TemplateReceiver

OmExecute(sig) ==
    /\ IsTrade(sig) => next_order_id < MaxApiOrders
    /\ \E placed \in PlaceLimitOrder(cfg.dry_run, next_order_id),
          done \in CancelAllOutcomes(orders, sig.token_id, cfg.dry_run) :
         LET did == Execute(orders, sig, placed, done)
         IN  /\ orders' = did.orders
             /\ next_order_id' =
                    IF IsTrade(sig) /\ placed.ok /\ placed.value > next_order_id
                    THEN placed.value ELSE next_order_id
             /\ call' = Called("execute", sig.token_id, sig, did.result)
    /\ UNCHANGED <<loop_vars, discovery_vars, risk_vars, positions, books, fills, tx, receivers>>

OmCancelOrder(order_id) ==
    /\ \E cancel_ok \in CancelOrderCalls(cfg.dry_run) :
         LET did == CancelOrder(orders, order_id, cancel_ok)
         IN  /\ orders' = did.orders
             /\ call' = Called("cancel_order", order_id, None, did.ok)
    /\ UNCHANGED <<loop_vars, discovery_vars, risk_vars, positions, books, fills, tx, receivers,
                   next_order_id>>

OmCancelAll(token_id) ==
    /\ \E done \in CancelAllOutcomes(orders, token_id, cfg.dry_run) :
         LET did == CancelAll(orders, token_id, done)
         IN  /\ orders' = did.orders
             /\ call' = Called("cancel_all", token_id, None, did.ok)
    /\ UNCHANGED <<loop_vars, discovery_vars, risk_vars, positions, books, fills, tx, receivers,
                   next_order_id>>

OmCancelAllOrders ==
    /\ \E cancel_ok \in CancelOrders(cfg.dry_run) :
         LET did == CancelAllOrders(orders, cancel_ok)
         IN  /\ orders' = did.orders
             /\ call' = Called("cancel_all_orders", None, None, did.ok)
    /\ UNCHANGED <<loop_vars, discovery_vars, risk_vars, positions, books, fills, tx, receivers,
                   next_order_id>>

OmProcessFill(order_id, size) ==
    /\ order_id \in DOMAIN orders
    /\ DecLt(orders[order_id].filled_size,
             DecMul(DecInt(MaxFillFactor), orders[order_id].size))
    /\ Len(fills) < MaxFillQueue
    /\ orders' = [orders EXCEPT ![order_id] = OrderProcessFill(@, size)]
    /\ fills' = Append(fills, FillOf(order_id, orders[order_id],
                                     orders[order_id].price, size))
    /\ call' = Called("process_fill", order_id, size, TRUE)
    /\ UNCHANGED <<loop_vars, discovery_vars, risk_vars, positions, books, tx, receivers,
                   next_order_id>>

NextOrders ==
    \/ \E sig \in OrderSignals : OmExecute(sig)
    \/ \E id \in DOMAIN orders : OmCancelOrder(id)
    \/ \E t \in Tokens : OmCancelAll(t)
    \/ OmCancelAllOrders
    \/ \E id \in DOMAIN orders, size \in FillCallSizes : OmProcessFill(id, size)
    \/ FillReceived

SpecOrders == InitOrders /\ [][NextOrders]_vars

----------------------------------------------------------------------------
(* PositionTracker driven fill by fill: apply_fill with buys and sells at  *)
(* several prices, each fill carrying the next order id.                   *)

FillPrices == {Dec(2, 5), Dec(1, 2), Dec(3, 5)}

FillUnits == {DecInt(10), DecInt(20)}

PositionFills(order_id) ==
    {FillOf(order_id, [token_id |-> t, is_buy |-> b], price, size) :
        t \in Tokens, b \in BOOLEAN, price \in FillPrices, size \in FillUnits}

InitPositions ==
    /\ InitIdle
    /\ books = [t \in Tokens |-> OrderBookNew]
    /\ tx = <<>>
    /\ receivers = TemplateReceiver

PtApplyFill(fill) ==
    /\ next_order_id < MaxPositionFills
    /\ next_order_id' = fill.order_id
    /\ positions' = TrackerApplyFill(positions, fill)
    /\ call' = Called("apply_fill", fill.token_id, fill,
                      GetOrCreate(positions, fill.token_id)[fill.token_id])
    /\ UNCHANGED <<loop_vars, discovery_vars, risk_vars, orders, fills, books, tx, receivers>>

NextPositions == \E fill \in PositionFills(next_order_id + 1) : PtApplyFill(fill)

SpecPositions == InitPositions /\ [][NextPositions]_vars

----------------------------------------------------------------------------
(* OrderBook queried for VWAPs: every book with up to three levels a side, *)
(* bids below asks, each ladder best price first, and buys and sells of    *)
(* sizes below, at and above the depth on offer.                           *)

AskPrices == {Dec(51, 100), Dec(52, 100), Dec(53, 100)}

BidPrices == {Dec(50, 100), Dec(49, 100), Dec(48, 100)}

LevelSizes == {DecInt(100), DecInt(200)}

VwapSizes == {DecInt(50), DecInt(100), DecInt(150), DecInt(300), DecInt(700)}

Ladders(prices) ==
    UNION {[1..n -> [price : prices, size : LevelSizes]] :
               n \in 0..Cardinality(prices)}

VwapBooks ==
    {[bids |-> b, asks |-> a] :
        b \in {l \in Ladders(BidPrices) : Descending(l)},
        a \in {l \in Ladders(AskPrices) : Ascending(l)}}

InitVwap ==
    /\ InitIdle
    /\ books \in [Tokens -> VwapBooks]
    /\ tx = <<>>
    /\ receivers = TemplateReceiver

BookVwapBuy(t, size) ==
    /\ call' = Called("vwap_buy", t, size, VwapBuy(books[t], size))
    /\ UNCHANGED <<loop_vars, discovery_vars, risk_vars, order_vars, positions, books, tx,
                   receivers>>

BookVwapSell(t, size) ==
    /\ call' = Called("vwap_sell", t, size, VwapSell(books[t], size))
    /\ UNCHANGED <<loop_vars, discovery_vars, risk_vars, order_vars, positions, books, tx,
                   receivers>>

NextVwap ==
    \/ \E t \in Tokens, size \in VwapSizes : BookVwapBuy(t, size)
    \/ \E t \in Tokens, size \in VwapSizes : BookVwapSell(t, size)

SpecVwap == InitVwap /\ [][NextVwap]_vars

----------------------------------------------------------------------------
(* Market discovery (engine.rs, gamma.rs): refresh_markets on the catalog  *)
(* answers of the two Gamma endpoints, and register_strategy.              *)

GammaMarket(slug, outcomes, outcome_prices, clob_token_ids, liquidity) ==
    [slug |-> slug, outcomes |-> outcomes, outcome_prices |-> outcome_prices,
     clob_token_ids |-> clob_token_ids, liquidity |-> liquidity]

(* max_by keeps the last of several equal maxima.                          *)
HighestCertaintyIndex(market) ==
    LET prices == market.outcome_prices
    IN  IF prices = <<>> THEN None
        ELSE Some(CHOOSE i \in 1..Len(prices) :
                    /\ \A j \in 1..Len(prices) : DecLe(prices[j], prices[i])
                    /\ \A j \in (i + 1)..Len(prices) : DecLt(prices[j], prices[i]))

(* The first outcome, whatever the prices.                                 *)
HighCertaintyTokenFirst(market) ==
    IF market.clob_token_ids = <<>> THEN None
    ELSE Some(market.clob_token_ids[1])

Get(seq, i) == IF i \in 1..Len(seq) THEN Some(seq[i]) ELSE None

(* The token both loops look up: clob_token_ids.get(high_cert_idx).        *)
HighCertaintyToken(market) ==
    LET idx == HighestCertaintyIndex(market)
    IN  IF IsSome(idx) THEN Get(market.clob_token_ids, Unwrap(idx)) ELSE None

HighCertaintyOutcome(market) ==
    LET idx == HighestCertaintyIndex(market)
    IN  IF IsSome(idx) THEN Get(market.outcomes, Unwrap(idx)) ELSE None

MarketInfoWithLiquidity(market, outcome) ==
    [outcome |-> outcome, slug |-> market.slug, liquidity |-> market.liquidity]

RECURSIVE BuildMarketInfoInto(_, _)
BuildMarketInfoInto(info_map, markets) ==
    IF markets = <<>> THEN info_map
    ELSE LET market == Head(markets)
             token_id == HighCertaintyToken(market)
             outcome == HighCertaintyOutcome(market)
         IN  BuildMarketInfoInto(
                 IF IsSome(token_id) /\ IsSome(outcome)
                 THEN MapPut(info_map, Unwrap(token_id),
                             MarketInfoWithLiquidity(market, Unwrap(outcome)))
                 ELSE info_map,
                 Tail(markets))

BuildMarketInfo(markets) == BuildMarketInfoInto(EmptyMap, markets)

Contains(seq, x) == \E i \in 1..Len(seq) : seq[i] = x

(* The merge of the two catalogs, the first market of each slug kept.      *)
RECURSIVE DedupBySlug(_, _)
DedupBySlug(markets, seen_slugs) ==
    IF markets = <<>> THEN <<>>
    ELSE IF Head(markets).slug \in seen_slugs
    THEN DedupBySlug(Tail(markets), seen_slugs)
    ELSE <<Head(markets)>> \o
         DedupBySlug(Tail(markets), seen_slugs \cup {Head(markets).slug})

(* The subscription loop of refresh_markets.                               *)
RECURSIVE SubscribeHighCertainty(_, _)
SubscribeHighCertainty(eng, markets) ==
    IF markets = <<>> THEN eng
    ELSE LET token_id == HighCertaintyToken(Head(markets))
         IN  SubscribeHighCertainty(
                 IF IsSome(token_id)
                    /\ ~Contains(eng.subscribed_tokens, Unwrap(token_id))
                 THEN [eng EXCEPT
                         !.books = InitBook(@, Unwrap(token_id)),
                         !.subscribed_tokens = Append(@, Unwrap(token_id)),
                         !.new_tokens_found = TRUE]
                 ELSE eng,
                 Tail(markets))

(* refresh_markets on the answers of the events and the series endpoint.   *)
RefreshMarkets(subscribed, info, reconnect, bs, event_markets, recurring_markets) ==
    LET unchanged == [subscribed_tokens |-> subscribed, market_info |-> info,
                      ws_needs_reconnect |-> reconnect, books |-> bs]
    IN
    IF ~event_markets.ok \/ ~recurring_markets.ok
    THEN [ok |-> FALSE] @@ unchanged
    ELSE LET markets == DedupBySlug(event_markets.value \o recurring_markets.value, {})
             done == SubscribeHighCertainty(
                         [subscribed_tokens |-> subscribed, books |-> bs,
                          new_tokens_found |-> FALSE], markets)
         IN  [ok |-> TRUE,
              subscribed_tokens |-> done.subscribed_tokens,
              market_info |-> BuildMarketInfo(markets),
              ws_needs_reconnect |-> IF done.new_tokens_found THEN TRUE
                                     ELSE reconnect,
              books |-> done.books]

(* register_strategy's subscriptions.                                      *)
RECURSIVE RegisterSubscriptions(_, _, _)
RegisterSubscriptions(subscribed, bs, tokens) ==
    IF tokens = <<>> THEN [subscribed_tokens |-> subscribed, books |-> bs]
    ELSE IF Contains(subscribed, Head(tokens))
    THEN RegisterSubscriptions(subscribed, bs, Tail(tokens))
    ELSE RegisterSubscriptions(Append(subscribed, Head(tokens)),
                               InitBook(bs, Head(tokens)), Tail(tokens))

(* The catalog: a market whose favourite changes between two fetches (same *)
(* slug), a market at even prices without a name for its second outcome,   *)
(* and one with fewer token ids than prices.                               *)
MarketA == GammaMarket("a", <<"Yes", "No">>, <<Dec(95, 100), Dec(5, 100)>>,
                       <<"a1", "a2">>, 1000)

MarketAFlipped == GammaMarket("a", <<"Yes", "No">>, <<Dec(5, 100), Dec(95, 100)>>,
                              <<"a1", "a2">>, 1000)

MarketB == GammaMarket("b", <<"Yes">>, <<Dec(1, 2), Dec(1, 2)>>,
                       <<"b1", "b2">>, 250)

MarketC == GammaMarket("c", <<"Yes", "No">>, <<Dec(1, 10), Dec(9, 10)>>,
                       <<"c1">>, 1000)

GammaMarkets == {MarketA, MarketAFlipped, MarketB, MarketC}

EventFetches ==
    {Err} \cup {Ok(l) : l \in UNION {[1..n -> GammaMarkets] : n \in 0..MaxFetched}}

SeriesFetches == {Err, Ok(<<>>), Ok(<<MarketAFlipped>>), Ok(<<MarketB>>)}

StrategySubscriptions == {<<"a2">>}

InitDiscovery ==
    /\ InitIdle
    /\ books = EmptyMap
    /\ tx = <<>>
    /\ receivers = TemplateReceiver

EngRefreshMarkets(event_markets, recurring_markets) ==
    /\ LET did == RefreshMarkets(subscribed_tokens, market_info,
                                 ws_needs_reconnect, books,
                                 event_markets, recurring_markets)
       IN  /\ subscribed_tokens' = did.subscribed_tokens
           /\ market_info' = did.market_info
           /\ ws_needs_reconnect' = did.ws_needs_reconnect
           /\ books' = did.books
           /\ call' = Called("refresh_markets", None,
                             [event_markets |-> event_markets,
                              recurring_markets |-> recurring_markets,
                              subscribed_before |-> subscribed_tokens],
                             did.ok)
    /\ UNCHANGED <<loop_vars, risk_vars, order_vars, positions, tx, receivers,
                   ws_stream, shutdown_rx>>

EngRegisterStrategy(tokens) ==
    /\ LET did == RegisterSubscriptions(subscribed_tokens, books, tokens)
       IN  /\ subscribed_tokens' = did.subscribed_tokens
           /\ books' = did.books
    /\ call' = Called("register_strategy", None, tokens, None)
    /\ UNCHANGED <<loop_vars, risk_vars, order_vars, positions, tx, receivers,
                   market_info, ws_needs_reconnect, ws_stream, shutdown_rx>>

NextDiscovery ==
    \/ \E e \in EventFetches, r \in SeriesFetches : EngRefreshMarkets(e, r)
    \/ \E tokens \in StrategySubscriptions : EngRegisterStrategy(tokens)

SpecDiscovery == InitDiscovery /\ [][NextDiscovery]_vars

----------------------------------------------------------------------------
(* Strategies (strategies/market_maker.rs, strategies/sure_bets.rs):       *)
(* on_tick on a context of order books, positions and market metadata.     *)

SPREAD_BPS == DecInt(200)
SKEW_FACTOR == Dec(1, 1000)
MAX_POSITION == DecInt(100)
ORDER_SIZE == DecInt(10)
MIN_EDGE == Dec(5, 1000)

PositionSize(ps, token_id) ==
    IF token_id \in DOMAIN ps THEN ps[token_id].size ELSE DecZero

(* An order of ORDER_SIZE whatever room is left.                           *)
MmBuySizeUncapped(position_size) == ORDER_SIZE

MmBuySize(position_size) ==
    LET remaining_buy == DecSub(MAX_POSITION, position_size)
    IN  IF DecLt(remaining_buy, ORDER_SIZE) THEN remaining_buy ELSE ORDER_SIZE

MmSellSize(position_size) ==
    LET remaining_sell == DecAdd(MAX_POSITION, position_size)
    IN  IF DecLt(remaining_sell, ORDER_SIZE) THEN remaining_sell ELSE ORDER_SIZE

MarketMakerOnTick(bs, ps, token_id) ==
    IF token_id \notin DOMAIN bs THEN <<Hold>>
    ELSE IF ~IsSome(BestBid(bs[token_id])) THEN <<Hold>>
    ELSE IF ~IsSome(BestAsk(bs[token_id])) THEN <<Hold>>
    ELSE
    LET bid == Unwrap(BestBid(bs[token_id])).price
        ask == Unwrap(BestAsk(bs[token_id])).price
        mid == DecDiv(DecAdd(bid, ask), DecTwo)
        position_size == PositionSize(ps, token_id)
        half_spread_pct == DecDiv(SPREAD_BPS, DecInt(20000))
        half_spread == DecMul(mid, half_spread_pct)
        skew == DecMul(position_size, SKEW_FACTOR)
        raw_bid == DecSub(DecSub(mid, half_spread), skew)
        raw_ask == DecSub(DecAdd(mid, half_spread), skew)
        my_bid == IF DecLt(raw_bid, Dec(1, 100)) THEN Dec(1, 100) ELSE raw_bid
        my_ask == IF DecGt(raw_ask, Dec(99, 100)) THEN Dec(99, 100) ELSE raw_ask
        can_buy == DecLt(position_size, MAX_POSITION)
        can_sell == DecGt(position_size, DecNeg(MAX_POSITION))
        buy_size == MmBuySize(position_size)
        sell_size == MmSellSize(position_size)
    IN  IF DecLt(DecSub(raw_ask, raw_bid), DecMul(MIN_EDGE, DecTwo))
        THEN <<Hold>>
        ELSE <<Cancel(token_id)>>
               \o (IF can_buy /\ DecGt(buy_size, DecZero)
                   THEN <<Buy(token_id, my_bid, buy_size)>> ELSE <<>>)
               \o (IF can_sell /\ DecGt(sell_size, DecZero)
                   THEN <<Sell(token_id, my_ask, sell_size)>> ELSE <<>>)

MIN_CERTAINTY == Dec(95, 100)
MAX_HOURS_TO_EXPIRY == DecInt(2)
MAX_POSITION_SIZE == DecInt(100)
MIN_EXPECTED_RETURN == Dec(1, 100)
MIN_ORDER_SIZE == DecInt(10)
MAX_SINGLE_ORDER == DecInt(50)

(* The minimum liquidity of the strategy's tests; the strategy has none.   *)
MIN_LIQUIDITY == DecInt(500)

(* The fields of MarketInfo that on_tick reads, and its liquidity.         *)
MarketInfo(end_date, hours_until_expiry, liquidity) ==
    [end_date |-> end_date, hours_until_expiry |-> hours_until_expiry,
     liquidity |-> liquidity]

(* The order for one market, with every size let through.                  *)
SureBetSizeAny(size) == TRUE

SureBetSizeOk(size) == ~DecLt(size, MIN_ORDER_SIZE)

(* One iteration of on_tick's loop: the Buy for the market, if any.        *)
SureBet(token_id, market, bs, ps) ==
    IF ~IsSome(market.end_date) THEN None
    ELSE IF ~( /\ IsSome(market.hours_until_expiry)
               /\ DecGt(Unwrap(market.hours_until_expiry), DecZero)
               /\ DecLe(Unwrap(market.hours_until_expiry), MAX_HOURS_TO_EXPIRY) )
    THEN None
    ELSE IF token_id \notin DOMAIN bs THEN None
    ELSE IF ~IsSome(BestAsk(bs[token_id])) THEN None
    ELSE
    LET ask == Unwrap(BestAsk(bs[token_id]))
        ask_price == ask.price
        expected_return == DecDiv(DecSub(DecInt(1), ask_price), ask_price)
        current_size == PositionSize(ps, token_id)
        remaining == DecSub(MAX_POSITION_SIZE, current_size)
        size == DecMin(DecMin(remaining, ask.size), MAX_SINGLE_ORDER)
    IN  IF DecLt(ask_price, MIN_CERTAINTY) THEN None
        ELSE IF DecLt(expected_return, MIN_EXPECTED_RETURN) THEN None
        ELSE IF DecGe(current_size, MAX_POSITION_SIZE) THEN None
        ELSE IF ~SureBetSizeOk(size) THEN None
        ELSE Some(Buy(token_id, ask_price, size))

(* on_tick over the markets in the order the map yields them.              *)
RECURSIVE SureBetsLoop(_, _, _, _)
SureBetsLoop(order, markets, bs, ps) ==
    IF order = <<>> THEN <<>>
    ELSE LET bet == SureBet(Head(order), markets[Head(order)], bs, ps)
         IN  (IF IsSome(bet) THEN <<Unwrap(bet)>> ELSE <<>>)
               \o SureBetsLoop(Tail(order), markets, bs, ps)

SureBetsOnTick(order, markets, bs, ps) ==
    LET signals == SureBetsLoop(order, markets, bs, ps)
    IN  IF signals = <<>> THEN <<Hold>> ELSE signals

(* The orders in which a map can yield its keys.                           *)
IterationOrders(m) ==
    {o \in [1..Cardinality(DOMAIN m) -> DOMAIN m] :
        \A i, j \in 1..Cardinality(DOMAIN m) : i # j => o[i] # o[j]}

OneLevelBook(bid, ask, ask_size) ==
    [bids |-> <<Level(bid, DecInt(100))>>, asks |-> <<Level(ask, ask_size)>>]

StrategyBooks ==
    { OrderBookNew,
      OneLevelBook(Dec(50, 100), Dec(51, 100), DecInt(100)),
      OneLevelBook(Dec(40, 100), Dec(41, 100), DecInt(100)),
      OneLevelBook(Dec(97, 100), Dec(99, 100), DecInt(100)),
      OneLevelBook(Dec(94, 100), Dec(96, 100), DecInt(100)),
      OneLevelBook(Dec(94, 100), Dec(96, 100), DecInt(20)),
      OneLevelBook(Dec(94, 100), Dec(96, 100), DecInt(5)) }

StrategyPositionSizes ==
    {DecInt(-150), DecInt(-100), DecInt(-95), DecZero, DecInt(60), DecInt(95),
     DecInt(100), DecInt(150)}

StrategyPositions ==
    {EmptyMap} \cup
    {[t \in Tokens |-> [PositionNew EXCEPT !.size = size,
                                           !.avg_entry_price = Dec(1, 2)]] :
        size \in StrategyPositionSizes}

StrategyMarkets ==
    {EmptyMap} \cup
    {[t \in Tokens |-> MarketInfo(end_date, hours, liquidity)] :
        end_date \in {None, Some(1)},
        hours \in {None, Some(DecInt(1)), Some(DecInt(48))},
        liquidity \in {None, Some(DecInt(250)), Some(DecInt(1000))}}

InitStrategies ==
    /\ pc = "select"
    /\ cfg = LiveConfig
    /\ tick_count = 0
    /\ ws_update_count = 0
    /\ warmup_complete = FALSE
    /\ circuit_breaker_triggered = FALSE
    /\ open_orders = EmptyMap
    /\ reserved = EmptyMap
    /\ orders = EmptyMap
    /\ next_order_id = 0
    /\ fills = <<>>
    /\ shutdown_requested = FALSE
    /\ shutdown = [flag |-> FALSE, on_shutdown_calls |-> 0, result |-> "running"]
    /\ signal_index = 0
    /\ last = None
    /\ call = None
    /\ subscribed_tokens = <<>>
    /\ ws_needs_reconnect = FALSE
    /\ ws_stream = None
    /\ shutdown_rx = 0
    /\ tx = <<>>
    /\ receivers = TemplateReceiver
    /\ books \in {EmptyMap} \cup [Tokens -> StrategyBooks]
    /\ positions \in StrategyPositions
    /\ market_info \in StrategyMarkets

MmOnTick(token_id) ==
    /\ call' = Called("market_maker.on_tick", token_id,
                      PositionSize(positions, token_id),
                      MarketMakerOnTick(books, positions, token_id))
    /\ UNCHANGED <<loop_vars, discovery_vars, risk_vars, order_vars, positions,
                   books, tx, receivers>>

SbOnTick(order) ==
    /\ call' = Called("sure_bets.on_tick", None, order,
                      SureBetsOnTick(order, market_info, books, positions))
    /\ UNCHANGED <<loop_vars, discovery_vars, risk_vars, order_vars, positions,
                   books, tx, receivers>>

NextStrategies ==
    \/ \E t \in Tokens : MmOnTick(t)
    \/ \E order \in IterationOrders(market_info) : SbOnTick(order)

SpecStrategies == InitStrategies /\ [][NextStrategies]_vars

----------------------------------------------------------------------------
(* Engine::run's 'reconnect loop (engine.rs:396-476, 644-691): the         *)
(* discovery handler, the market-data stream and the warmup it restarts.   *)

(* refresh_markets applying the events catalog before the series fetch has *)
(* answered.                                                               *)
HandlerRefreshEager(subscribed, info, reconnect, bs, event_markets, recurring_markets) ==
    IF event_markets.ok /\ ~recurring_markets.ok
    THEN [RefreshMarkets(subscribed, info, reconnect, bs, event_markets,
                         Ok(<<>>)) EXCEPT !.ok = FALSE]
    ELSE RefreshMarkets(subscribed, info, reconnect, bs, event_markets,
                        recurring_markets)

(* The discovery handler's call of refresh_markets: an error is logged and *)
(* whatever refresh_markets left behind is what the handler goes on with.  *)
HandlerRefresh(subscribed, info, reconnect, bs, event_markets, recurring_markets) ==
    RefreshMarkets(subscribed, info, reconnect, bs, event_markets,
                   recurring_markets)

(* A reconnect that keeps the warmup of the stream it drops.               *)
ReconnectKeepWarm(subscribed, subscribe_ok, count, complete) ==
    [ws_stream |-> Connect(subscribed, subscribe_ok),
     ws_update_count |-> count, warmup_complete |-> complete]

(* continue 'reconnect: the stream is dropped, the update count and the    *)
(* warmup start again and a stream over all subscribed tokens is opened.   *)
Reconnect(subscribed, subscribe_ok, count, complete) ==
    [ws_stream |-> Connect(subscribed, subscribe_ok),
     ws_update_count |-> 0, warmup_complete |-> FALSE]

ReconnectConfigs ==
    { Config(FALSE, FALSE, 0, DecInt(50), DecInt(50)), LiveConfig }

RcEventFetches == {Err, Ok(<<>>), Ok(<<MarketA>>)}

RcSeriesFetches == {Err, Ok(<<>>), Ok(<<MarketB>>)}

(* The feed is quiet but for the token of the registered strategy.         *)
FeedTokens(stream) ==
    IF IsSome(stream)
    THEN {t \in {"a2"} : Contains(Unwrap(stream).asset_ids, t)}
    ELSE {}

FeedSnapshots ==
    { [bids |-> <<Level(Dec(4, 5), DecInt(100))>>,
       asks |-> <<Level(Dec(9, 10), DecInt(100))>>] }

(* The engine as run() finds it: a strategy registered for a2, the initial *)
(* discovery done and the first stream opened or not.                      *)
InitReconnect ==
    /\ cfg \in ReconnectConfigs
    /\ pc = "select"
    /\ tick_count = 0
    /\ ws_update_count = 0
    /\ warmup_complete = FALSE
    /\ circuit_breaker_triggered = FALSE
    /\ open_orders = EmptyMap
    /\ reserved = EmptyMap
    /\ orders = EmptyMap
    /\ next_order_id = 0
    /\ positions = EmptyMap
    /\ fills = <<>>
    /\ shutdown_requested = FALSE
    /\ shutdown = [flag |-> FALSE, on_shutdown_calls |-> 0, result |-> "running"]
    /\ signal_index = 0
    /\ last = None
    /\ call = None
    /\ tx = <<>>
    /\ receivers = TemplateReceiver
    /\ subscribed_tokens = <<"a2">>
    /\ books = InitBook(EmptyMap, "a2")
    /\ market_info = EmptyMap
    /\ ws_needs_reconnect = FALSE
    /\ \E subscribe_ok \in BOOLEAN :
         ws_stream = Connect(subscribed_tokens, subscribe_ok)
    /\ shutdown_rx = 0

(* The discovery handler of the select loop.                               *)
DiscoveryRefresh(event_markets, recurring_markets, subscribe_ok) ==
    /\ SelectReady(pc)
    /\ LET did == HandlerRefresh(subscribed_tokens, market_info,
                                       ws_needs_reconnect, books,
                                       event_markets, recurring_markets)
           again == Reconnect(did.subscribed_tokens, subscribe_ok,
                              ws_update_count, warmup_complete)
       IN  /\ subscribed_tokens' = did.subscribed_tokens
           /\ market_info' = did.market_info
           /\ books' = did.books
           /\ IF did.ws_needs_reconnect
              THEN /\ ws_needs_reconnect' = FALSE
                   /\ ws_stream' = again.ws_stream
                   /\ ws_update_count' = again.ws_update_count
                   /\ warmup_complete' = again.warmup_complete
              ELSE UNCHANGED <<ws_needs_reconnect, ws_stream, ws_update_count,
                               warmup_complete>>
           /\ call' = Called("refresh_markets", None,
                             [warmup_complete |-> warmup_complete,
                              tick_count |-> tick_count],
                             did.ok)
    /\ UNCHANGED <<cfg, pc, tick_count, shutdown_requested, shutdown,
                   signal_index, last, risk_vars, order_vars, positions, tx,
                   receivers, shutdown_rx>>

(* The stream yields an error element: the Err arm logs it.                *)
FeedError ==
    /\ SelectReady(pc)
    /\ IsSome(ws_stream)
    /\ ws_stream' = Some([Unwrap(ws_stream) EXCEPT !.errored = TRUE])
    /\ UNCHANGED <<loop_vars, risk_vars, order_vars, positions, books,
                   api_vars, subscribed_tokens, market_info,
                   ws_needs_reconnect, shutdown_rx>>

NextReconnect ==
    \/ \E e \in RcEventFetches, r \in RcSeriesFetches, subscribe_ok \in BOOLEAN :
         DiscoveryRefresh(e, r, subscribe_ok)
    \/ \E t \in FeedTokens(ws_stream), update \in FeedSnapshots :
         BookUpdate(t, update)
    \/ FeedError
    \/ Tick
    \/ EndTick
    \/ Interrupt

SpecReconnect == InitReconnect /\ [][NextReconnect]_vars

----------------------------------------------------------------------------
(* RiskManager (risk.rs) driven call by call: check_signal, order_placed   *)
(* and order_closed under limits with a small max_open_orders.             *)

OrderPlaced(oo, order_id, token_id, notional) ==
    MapPut(oo, order_id, [token_id |-> token_id, notional |-> notional])

TotalOpenOrders(oo) == Cardinality(DOMAIN oo)

RiskOpenOrderLimits == {1, 2}

RiskSignals ==
    {Buy(t, Dec(1, 2), size) : t \in Tokens, size \in {DecInt(10), DecInt(20)}}
      \cup {Sell(t, Dec(1, 2), DecInt(10)) : t \in Tokens}

InitRisk ==
    /\ InitIdle
    /\ books = EmptyMap
    /\ tx = <<>>
    /\ receivers = TemplateReceiver

(* RiskManager::new(limits): the limits are the caller's.                  *)
RmNew(max_open_orders) ==
    /\ call = None
    /\ cfg' = [cfg EXCEPT !.limits.max_open_orders = max_open_orders]
    /\ call' = Called("new", None, max_open_orders, None)
    /\ UNCHANGED <<pc, tick_count, ws_update_count, warmup_complete,
                   shutdown_requested, shutdown, signal_index, last,
                   risk_vars, order_vars, positions, books, tx, receivers,
                   discovery_vars>>

RmCheckSignal(sig) ==
    /\ IsSome(call)
    /\ call' = Called("check_signal", sig.token_id, sig,
                      CheckSignal(sig, circuit_breaker_triggered, positions,
                                  open_orders, cfg.limits))
    /\ UNCHANGED <<loop_vars, risk_vars, order_vars, positions, books, tx,
                   receivers, discovery_vars>>

(* order_placed for the order the latest check_signal let through.         *)
RmOrderPlaced ==
    /\ IsSome(call)
    /\ Unwrap(call).op = "check_signal"
    /\ Unwrap(call).result.tag \in {"Approved", "Reduced"}
    /\ next_order_id < MaxRiskOrders
    /\ LET s == Unwrap(call).result.signal
       IN  /\ open_orders' = OrderPlaced(open_orders, next_order_id + 1,
                                         s.token_id, DecMul(s.price, s.size))
           /\ call' = Called("order_placed", s.token_id, next_order_id + 1, None)
    /\ next_order_id' = next_order_id + 1
    /\ UNCHANGED <<loop_vars, circuit_breaker_triggered, reserved, orders,
                   fills, positions, books, tx, receivers, discovery_vars>>

RmOrderClosed(order_id) ==
    /\ IsSome(call)
    /\ open_orders' = OrderClosed(open_orders, order_id)
    /\ call' = Called("order_closed", None, order_id, None)
    /\ UNCHANGED <<loop_vars, circuit_breaker_triggered, reserved, order_vars,
                   positions, books, tx, receivers, discovery_vars>>

NextRisk ==
    \/ \E n \in RiskOpenOrderLimits : RmNew(n)
    \/ \E sig \in RiskSignals : RmCheckSignal(sig)
    \/ RmOrderPlaced
    \/ \E id \in 1..MaxRiskOrders : RmOrderClosed(id)

SpecRisk == InitRisk /\ [][NextRisk]_vars

----------------------------------------------------------------------------
(* Properties                                                              *)

Entry == Unwrap(last)

Notional(sig) == DecMul(sig.price, sig.size)

TotalPnl == DecAdd(TotalRealizedPnl(positions), TotalUnrealizedPnl(positions))

(* C1: whenever the signal loop lets a Buy/Sell through to execute (the    *)
(* check approved or reduced it and the reservation was granted), position *)
(* notional plus every reservation, the new one included, is at most       *)
(* max_total_exposure.                                                     *)
C1_ExposureWithinLimitWhenLetThrough ==
    (IsSome(last) /\ Entry.executed) =>
        /\ IsSome(Entry.exposure_reserved)
        /\ Unwrap(Entry.exposure_reserved) =
               DecAdd(Entry.exposure_before, Notional(Entry.sent))
        /\ DecLe(Unwrap(Entry.exposure_reserved), cfg.limits.max_total_exposure)

C1_Witness ==
    /\ IsSome(last)
    /\ Entry.executed
    /\ Entry.check = "Reduced"
    /\ DecGt(Entry.exposure_before, DecZero)
    /\ Unwrap(Entry.exposure_reserved) = cfg.limits.max_total_exposure

(* C2: two consecutive Buy signals of a tick, neither hitting the          *)
(* order-size or the position limit, each fitting under max_total_exposure *)
(* alone, the first one placed.                                            *)
NoPositionLimitHit(sig) ==
    sig.token_id \in DOMAIN positions =>
        DecLe(DecMul(DecAbs(DecAdd(positions[sig.token_id].size, sig.size)),
                     sig.price),
              cfg.limits.max_position_size)

First == Unwrap(Entry.prior)

TwoBuysEachFitting ==
    /\ IsSome(last)
    /\ IsSome(Entry.prior)
    /\ First.signal.type = "Buy"
    /\ Entry.signal.type = "Buy"
    /\ First.result = "placed"
    /\ DecLe(Notional(First.signal), cfg.limits.max_order_size)
    /\ DecLe(Notional(Entry.signal), cfg.limits.max_order_size)
    /\ NoPositionLimitHit(First.signal)
    /\ NoPositionLimitHit(Entry.signal)
    /\ DecLe(DecAdd(First.exposure_before, Notional(First.signal)),
             cfg.limits.max_total_exposure)
    /\ DecLe(DecAdd(First.exposure_before, Notional(Entry.signal)),
             cfg.limits.max_total_exposure)

ExposureAfterFirst == DecAdd(First.exposure_before, Notional(First.signal))

C3_ReservationReleasedOnError ==
    (IsSome(last) /\ Entry.executed /\ Entry.result \in {"error", "no order"}) =>
        /\ reserved = EmptyMap
        /\ LedgerExposure(positions, open_orders, reserved) = Entry.exposure_before
        /\ pc = "signals"

C3_Witness ==
    /\ IsSome(last)
    /\ Entry.executed
    /\ Entry.result = "error"
    /\ IsSome(Entry.prior)
    /\ Unwrap(Entry.prior).result = "placed"

(* C4: in dry-run mode execute of a Buy or Sell returns no order id and    *)
(* adds no entry to the order map.                                         *)
C4_DryRunTracksNoOrder ==
    cfg.dry_run =>
        /\ DOMAIN orders = {}
        /\ (IsSome(last) /\ Entry.executed) => Entry.result = "no order"

(* C5: in dry-run mode every reservation of a tick has been released when  *)
(* the tick handler ends, so between ticks nothing is reserved or tracked  *)
(* and the exposure capacity is untouched.                                 *)
C5_DryRunConsumesNoExposure ==
    (cfg.dry_run /\ pc = "select") =>
        /\ reserved = EmptyMap
        /\ open_orders = EmptyMap
        /\ RemainingCapacity(positions, open_orders, cfg.limits) =
               cfg.limits.max_total_exposure

(* C6: every Cancel signal of a trading tick is passed to                  *)
(* OrderManager::execute.                                                  *)
C6_CancelReachesOrderManager ==
    (IsSome(last) /\ Entry.signal.type = "Cancel") => Entry.executed

(* C7: while skip_warmup is false and fewer than 100 book updates have     *)
(* arrived, a tick increments the tick counter but hands no signal to the  *)
(* signal loop and leaves the orders alone; the signal loop runs only with *)
(* skip_warmup set or 100 updates observed.                                *)
C7_WarmupTickTradesNothing ==
    [][ /\ ( /\ tick_count' # tick_count
             /\ ~cfg.skip_warmup
             /\ ws_update_count < WARMUP_WS_UPDATES )
           => /\ tick_count' = tick_count + 1
              /\ pc' # "signals"
              /\ ~warmup_complete'
              /\ orders' = orders
              /\ open_orders' = open_orders
        /\ pc' = "signals" =>
               (cfg.skip_warmup \/ ws_update_count >= WARMUP_WS_UPDATES) ]_vars

C7_Witness ==
    /\ ~cfg.skip_warmup
    /\ tick_count > 0
    /\ ~warmup_complete
    /\ ws_update_count > 0
    /\ ws_update_count < WARMUP_WS_UPDATES
    /\ pc = "select"

(* C8: the circuit breaker is a latch: once tripped it stays tripped       *)
(* through every later tick, fill and price update, check_signal rejects   *)
(* every Buy/Sell while it is, and the signal loop is not entered.         *)
C8_CircuitBreakerLatches ==
    [][ circuit_breaker_triggered =>
            /\ circuit_breaker_triggered'
            /\ pc' # "signals"
            /\ \A sig \in TradeSignals :
                   CheckSignal(sig, circuit_breaker_triggered', positions',
                               open_orders', cfg.limits).tag = "Rejected" ]_vars

C8_Witness ==
    /\ circuit_breaker_triggered
    /\ DecGe(TotalPnl, DecNeg(cfg.limits.max_loss))
    /\ tick_count = MaxTickCount
    /\ pc = "select"

(* C9 as stated: realized + unrealized P&L >= -max_loss implies that the   *)
(* engine is not halted.                                                   *)
C9_PnlAboveLimitImpliesNotHalted ==
    DecGe(TotalPnl, DecNeg(cfg.limits.max_loss)) => ~circuit_breaker_triggered

(* C9, amended: the breaker goes from not halted to halted only in a tick  *)
(* whose check_pnl sees realized + unrealized P&L < -max_loss.             *)
C9_HaltedOnlyWhenPnlBelowLimit ==
    [][ (~circuit_breaker_triggered /\ circuit_breaker_triggered') =>
            /\ DecLt(TotalPnl, DecNeg(cfg.limits.max_loss))
            /\ tick_count' = tick_count + 1 ]_vars

C9_Witness ==
    /\ circuit_breaker_triggered
    /\ DecLt(TotalPnl, DecNeg(cfg.limits.max_loss))
    /\ pc = "select"

(* C10: after risk-checked orders and their fills at the limit price,      *)
(* every position (here: one not re-marked since, valued at its fill       *)
(* price) has |size| x price <= max_position_size.                         *)
C10_PositionWithinLimit ==
    \A t \in DOMAIN positions :
        positions[t].last_price = None =>
            DecLe(PositionNotional(positions[t]), cfg.limits.max_position_size)

LastCall == Unwrap(call)

BookOf(update) == [bids |-> update.bids, asks |-> update.asks]

(* C15: process_book_update(t) makes get_book(t) the snapshot just         *)
(* processed and leaves every other token's book as it was; init_book(t)   *)
(* gives an unseen token an empty book and changes nothing else; no other  *)
(* call changes a book, and a token never seen has none.                   *)
C15_HubHoldsLastSnapshot ==
    [][ LET c == Unwrap(call')
            t == c.token_id
        IN  /\ c.op = "process_book_update" =>
                 /\ GetBook(books', t) = Some(BookOf(c.arg))
                 /\ \A o \in HubTokens \ {t} : GetBook(books', o) = GetBook(books, o)
            /\ c.op = "init_book" =>
                 /\ GetBook(books', t) =
                        IF GetBook(books, t) = None THEN Some(OrderBookNew)
                        ELSE GetBook(books, t)
                 /\ \A o \in HubTokens \ {t} : GetBook(books', o) = GetBook(books, o)
            /\ c.op \in {"subscribe", "recv"} => books' = books ]_vars

C15_Witness ==
    /\ IsSome(call)
    /\ LastCall.op = "process_book_update"
    /\ LastCall.token_id = "t1"
    /\ "t2" \in DOMAIN books
    /\ books["t2"] # OrderBookNew
    /\ books["t2"] # books["t1"]

(* C16: process_book_update on a full channel discards the oldest pending  *)
(* event and enqueues the new one (on a channel with room it just          *)
(* enqueues), and the hub's book is the new snapshot whatever the          *)
(* receivers have received.                                                *)
C16_FullChannelDropsOldest ==
    [][ LET c == Unwrap(call')
            t == c.token_id
        IN  c.op = "process_book_update" =>
              /\ books'[t] = BookOf(c.arg)
              /\ tx' = IF Len(tx) = HubCapacity
                       THEN Append(Tail(tx), MarketEvent(t, books'[t]))
                       ELSE Append(tx, MarketEvent(t, books'[t])) ]_vars

C16_Witness ==
    /\ IsSome(call)
    /\ LastCall.op = "process_book_update"
    /\ Len(tx) = HubCapacity
    /\ receivers["rx"].overflowed
    /\ tx[Len(tx)] = MarketEvent(LastCall.token_id, BookOf(LastCall.arg))
    /\ tx[1] # tx[Len(tx)]

(* C17: a receiver returned by subscribe() is at the tail of the           *)
(* broadcast: no event buffered before the call is available to it.        *)
C17_SubscriberStartsAtTail ==
    (IsSome(call) /\ LastCall.op = "subscribe") =>
        /\ receivers[LastCall.token_id].offset = Len(tx)
        /\ ~receivers[LastCall.token_id].overflowed

(* The shape a book is documented to have.                                *)
WellFormedBook(book) ==
    /\ Descending(book.bids)
    /\ Ascending(book.asks)
    /\ \A i \in 1..Len(book.bids) : DecGt(book.bids[i].size, DecZero)
    /\ \A i \in 1..Len(book.asks) : DecGt(book.asks[i].size, DecZero)
    /\ (book.bids # <<>> /\ book.asks # <<>>) =>
           DecLt(book.bids[1].price, book.asks[1].price)

(* C18: every book the hub holds has bids strictly decreasing and asks     *)
(* strictly increasing in price, every size positive and best bid < best   *)
(* ask (a snapshot that is not so is dropped).                             *)
C18_HubBooksWellFormed ==
    \A t \in DOMAIN books : WellFormedBook(books[t])

(* The order of the statuses an order moves through.                       *)
StatusRank(status) ==
    CASE status = "Pending" -> 0
      [] status = "Open" -> 1
      [] status = "PartiallyFilled" -> 2
      [] OTHER -> 3

TerminalStatuses == {"Filled", "Cancelled"}

(* C11: under any sequence of execute, cancel_order, cancel_all,           *)
(* cancel_all_orders and process_fill calls an order's status only moves   *)
(* forward (Open, PartiallyFilled, then Filled or Cancelled), and an order *)
(* that is Filled or Cancelled never changes status again.                 *)
C11_StatusMonotonic ==
    [][\A id \in DOMAIN orders :
         /\ id \in DOMAIN orders'
         /\ StatusRank(orders'[id].status) >= StatusRank(orders[id].status)
         /\ orders[id].status \in TerminalStatuses
              => orders'[id].status = orders[id].status]_vars

(* C12: under any sequence of process_fill calls with positive sizes every *)
(* order keeps 0 <= filled_size <= size.                                   *)
C12_FilledSizeWithinSize ==
    \A id \in DOMAIN orders :
        /\ DecGe(orders[id].filled_size, DecZero)
        /\ DecLe(orders[id].filled_size, orders[id].size)

(* An apply_fill call of a buy on a position of size zero; the call        *)
(* records the position it found.                                          *)
BuyOnFlat(c) ==
    /\ c.op = "apply_fill"
    /\ c.arg.is_buy
    /\ c.result.size = DecZero

(* C13: a buy fill of size D at price p applied to a flat position gives   *)
(* size = D, avg_entry_price = p and leaves realized_pnl as it was (0 on a *)
(* new position); a sell fill of size c <= D at price p' applied next      *)
(* gives size D - c (0 when c = D) and adds c x (p' - p) to realized_pnl.  *)
C13_PositionRoundTrip ==
    [][LET now == Unwrap(call')
           t == now.token_id
       IN  /\ BuyOnFlat(now) =>
                /\ positions'[t].size = now.arg.size
                /\ positions'[t].avg_entry_price = now.arg.price
                /\ positions'[t].realized_pnl = now.result.realized_pnl
           /\ ( /\ IsSome(call)
                /\ BuyOnFlat(LastCall)
                /\ LastCall.token_id = t
                /\ ~now.arg.is_buy
                /\ DecLe(now.arg.size, LastCall.arg.size) ) =>
                /\ positions'[t].size = DecSub(LastCall.arg.size, now.arg.size)
                /\ positions'[t].realized_pnl =
                       DecAdd(LastCall.result.realized_pnl,
                              DecMul(now.arg.size,
                                     DecSub(now.arg.price, LastCall.arg.price)))
      ]_vars

(* A new position bought (20) and then sold in full at a higher price: it  *)
(* is flat again with the whole gain realized.                             *)
C13_Witness ==
    /\ IsSome(call)
    /\ LastCall.op = "apply_fill"
    /\ ~LastCall.arg.is_buy
    /\ LastCall.result.size = LastCall.arg.size
    /\ LastCall.result.realized_pnl = DecZero
    /\ DecGt(LastCall.arg.price, LastCall.result.avg_entry_price)
    /\ positions[LastCall.token_id].size = DecZero
    /\ positions[LastCall.token_id].realized_pnl =
           DecMul(LastCall.arg.size,
                  DecSub(LastCall.arg.price, LastCall.result.avg_entry_price))
    /\ DecGt(positions[LastCall.token_id].realized_pnl, DecZero)

(* C14: in every state reached through the engine's fill and book-update   *)
(* handlers a position of size zero has unrealized_pnl zero, also right    *)
(* after the fill handler has closed it.                                   *)
C14_FlatPositionHasNoUnrealizedPnl ==
    \A t \in DOMAIN positions :
        positions[t].size = DecZero => positions[t].unrealized_pnl = DecZero

(* C19: on a book whose asks ascend in price, for every size > 0 that the  *)
(* asks can fill, vwap_buy(size) is a price >= the best ask price, equal   *)
(* to it when size <= the best ask size; on bids descending in price,      *)
(* vwap_sell(size) is a price <= the best bid price, equal to it when      *)
(* size <= the best bid size.                                              *)
C19_VwapLaw ==
    IsSome(call) =>
        LET book == books[LastCall.token_id]
            size == LastCall.arg
            vwap == LastCall.result
        IN  /\ ( /\ LastCall.op = "vwap_buy"
                 /\ DecGt(size, DecZero)
                 /\ DecLe(size, AskDepth(book)) ) =>
                 /\ IsSome(vwap)
                 /\ DecGe(Unwrap(vwap), book.asks[1].price)
                 /\ DecLe(size, book.asks[1].size) =>
                        Unwrap(vwap) = book.asks[1].price
            /\ ( /\ LastCall.op = "vwap_sell"
                 /\ DecGt(size, DecZero)
                 /\ DecLe(size, BidDepth(book)) ) =>
                 /\ IsSome(vwap)
                 /\ DecLe(Unwrap(vwap), book.bids[1].price)
                 /\ DecLe(size, book.bids[1].size) =>
                        Unwrap(vwap) = book.bids[1].price

(* A buy that takes the best ask whole and part of the next level: its     *)
(* VWAP lies strictly between the two prices.                              *)
C19_Witness ==
    /\ IsSome(call)
    /\ LastCall.op = "vwap_buy"
    /\ Len(books[LastCall.token_id].asks) >= 2
    /\ DecGt(LastCall.arg, books[LastCall.token_id].asks[1].size)
    /\ IsSome(LastCall.result)
    /\ DecGt(Unwrap(LastCall.result), books[LastCall.token_id].asks[1].price)
    /\ DecLt(Unwrap(LastCall.result), books[LastCall.token_id].asks[2].price)

(* C20: for every size > 0, vwap_buy(size) is none exactly when size       *)
(* exceeds the total ask depth and vwap_sell(size) exactly when it exceeds *)
(* the total bid depth, so no price comes from a partial fill and an empty *)
(* side gives none.                                                        *)
C20_VwapNoneIffInsufficientDepth ==
    (IsSome(call) /\ LastCall.op \in {"vwap_buy", "vwap_sell"}
       /\ DecGt(LastCall.arg, DecZero)) =>
        LET book == books[LastCall.token_id]
            depth == IF LastCall.op = "vwap_buy" THEN AskDepth(book)
                     ELSE BidDepth(book)
            side == IF LastCall.op = "vwap_buy" THEN book.asks ELSE book.bids
        IN  /\ LastCall.result = None <=> DecGt(LastCall.arg, depth)
            /\ side = <<>> => LastCall.result = None

(* A buy of more than the three ask levels hold together.                  *)
C20_Witness ==
    /\ IsSome(call)
    /\ LastCall.op = "vwap_buy"
    /\ Len(books[LastCall.token_id].asks) = 3
    /\ DecGt(LastCall.arg, AskDepth(books[LastCall.token_id]))
    /\ LastCall.result = None

(* C21: with max_ticks = N > 0 the tick that brings the counter to N stops *)
(* the engine without evaluating a strategy, the counter never passes N,   *)
(* and shutdown (cancel all, on_shutdown) has then run once; with          *)
(* max_ticks = 0 no tick stops the engine by its count.                    *)
C21_MaxTicksShutsDownOnNthTick ==
    [][tick_count' # tick_count =>
         IF cfg.max_ticks > 0 /\ tick_count' >= cfg.max_ticks
         THEN /\ tick_count' = cfg.max_ticks
              /\ pc' = "stopped"
              /\ shutdown'.flag
              /\ shutdown'.on_shutdown_calls = 1
         ELSE /\ pc' # "stopped"
              /\ shutdown' = shutdown]_vars

(* C22: when the run loop has exited through a shutdown, every strategy's  *)
(* on_shutdown has been called exactly once, whether or not the batched    *)
(* cancel succeeded, and after a shutdown that completed no tracked order  *)
(* is Pending, Open or PartiallyFilled.                                    *)
C22_ShutdownCancelsThenNotifies ==
    pc = "stopped" =>
        /\ shutdown.flag
        /\ shutdown.on_shutdown_calls = 1
        /\ shutdown.result = "ok" => ActiveIds(orders) = {}

Range(seq) == {seq[i] : i \in 1..Len(seq)}

(* The markets a refresh discovers: of the two catalogs one after the      *)
(* other, the first market of every slug.                                  *)
Discovered(c) ==
    LET fetched == c.arg.event_markets.value \o c.arg.recurring_markets.value
    IN  {fetched[i] : i \in {k \in 1..Len(fetched) :
                               \A j \in 1..(k - 1) :
                                   fetched[j].slug # fetched[k].slug}}

(* Outcome k of the market has the highest price of its outcomes.          *)
IsArgmax(market, k) ==
    /\ k \in 1..Len(market.outcome_prices)
    /\ \A j \in 1..Len(market.outcome_prices) :
           DecLe(market.outcome_prices[j], market.outcome_prices[k])

(* C23: a refresh subscribes, and puts into market_info, of every market   *)
(* it discovers only the token at the highest outcome price: no other      *)
(* outcome token of the market is subscribed by that refresh or is a key   *)
(* of market_info, and every key of market_info is a subscribed token.     *)
C23_OnlyHighestCertaintyToken ==
    [][LET c == Unwrap(call')
       IN  (c.op = "refresh_markets" /\ c.result) =>
             /\ \A m \in Discovered(c) :
                  \A k \in 1..Len(m.clob_token_ids) :
                    ( \/ /\ m.clob_token_ids[k] \in Range(subscribed_tokens')
                         /\ m.clob_token_ids[k] \notin Range(subscribed_tokens)
                      \/ m.clob_token_ids[k] \in DOMAIN market_info' )
                      => IsArgmax(m, k)
             /\ Range(subscribed_tokens') \ Range(subscribed_tokens) \subseteq
                    UNION {Range(m.clob_token_ids) : m \in Discovered(c)}
             /\ DOMAIN market_info' \subseteq
                    UNION {Range(m.clob_token_ids) : m \in Discovered(c)}
             /\ DOMAIN market_info' \subseteq Range(subscribed_tokens')]_vars

(* A refresh that discovers the market whose second outcome is the         *)
(* favourite: that token alone is subscribed and described.                *)
C23_Witness ==
    /\ IsSome(call)
    /\ LastCall.op = "refresh_markets"
    /\ LastCall.result
    /\ MarketAFlipped \in Discovered(LastCall)
    /\ "a2" \notin Range(LastCall.arg.subscribed_before)
    /\ "a2" \in Range(subscribed_tokens)
    /\ "a1" \notin Range(subscribed_tokens)
    /\ DOMAIN market_info = {"a2"}

SignalTypes(signals) == [i \in 1..Len(signals) |-> signals[i].type]

(* C24: MarketMaker.on_tick emits no Buy at a position >= MAX_POSITION and *)
(* no Sell at a position <= -MAX_POSITION; every Buy has size              *)
(* min(ORDER_SIZE, MAX_POSITION - position) > 0 and every Sell             *)
(* min(ORDER_SIZE, MAX_POSITION + position) > 0; and when it quotes, the   *)
(* Cancel for the token comes first, then the Buy if any, then the Sell if *)
(* any.                                                                    *)
C24_MarketMakerRespectsCap ==
    (IsSome(call) /\ LastCall.op = "market_maker.on_tick") =>
        LET signals == LastCall.result
            position == LastCall.arg
        IN  /\ \A i \in 1..Len(signals) :
                 /\ signals[i].type = "Buy" =>
                      /\ DecLt(position, MAX_POSITION)
                      /\ signals[i].size =
                             DecMin(ORDER_SIZE, DecSub(MAX_POSITION, position))
                      /\ DecGt(signals[i].size, DecZero)
                 /\ signals[i].type = "Sell" =>
                      /\ DecGt(position, DecNeg(MAX_POSITION))
                      /\ signals[i].size =
                             DecMin(ORDER_SIZE, DecAdd(MAX_POSITION, position))
                      /\ DecGt(signals[i].size, DecZero)
            /\ \/ signals = <<Hold>>
               \/ /\ signals[1] = Cancel(LastCall.token_id)
                  /\ SignalTypes(signals) \in
                         {<<"Cancel">>, <<"Cancel", "Buy">>, <<"Cancel", "Sell">>,
                          <<"Cancel", "Buy", "Sell">>}

(* Five short of the cap: the Buy is cut to 5, the Sell is a full order;   *)
(* at the cap: no Buy.                                                     *)
C24_Witness ==
    /\ IsSome(call)
    /\ LastCall.op = "market_maker.on_tick"
    /\ \/ /\ LastCall.arg = DecInt(95)
          /\ SignalTypes(LastCall.result) = <<"Cancel", "Buy", "Sell">>
          /\ LastCall.result[2].size = DecInt(5)
          /\ LastCall.result[3].size = DecInt(10)
       \/ /\ LastCall.arg = DecInt(100)
          /\ SignalTypes(LastCall.result) = <<"Cancel", "Sell">>

(* C25: SureBets.on_tick emits no Buy for a market whose liquidity is      *)
(* below min_liquidity (500), and returns exactly [Hold] when no market    *)
(* has more; a Buy is at the best ask price with size min(position room,   *)
(* best ask size, max single order); Hold never comes with a Buy.          *)
C25_SureBetsLiquidityGate ==
    (IsSome(call) /\ LastCall.op = "sure_bets.on_tick") =>
        LET signals == LastCall.result
        IN  /\ \A i \in 1..Len(signals) :
                 signals[i].type = "Buy" =>
                   LET t == signals[i].token_id
                       ask == books[t].asks[1]
                   IN  /\ IsSome(market_info[t].liquidity)
                       /\ DecGe(Unwrap(market_info[t].liquidity), MIN_LIQUIDITY)
                       /\ signals[i].price = ask.price
                       /\ signals[i].size =
                              DecMin(DecMin(DecSub(MAX_POSITION_SIZE,
                                                   PositionSize(positions, t)),
                                            ask.size),
                                     MAX_SINGLE_ORDER)
            /\ (\A t \in DOMAIN market_info :
                   ~IsSome(market_info[t].liquidity)
                   \/ DecLt(Unwrap(market_info[t].liquidity), MIN_LIQUIDITY))
                 => signals = <<Hold>>
            /\ (\E i \in 1..Len(signals) : signals[i].type = "Buy")
                 => \A i \in 1..Len(signals) : signals[i].type # "Hold"

(* The exposure the earlier signal of the tick left behind: its notional   *)
(* if its order was placed and its reservation confirmed, nothing if it    *)
(* was rejected, skipped, refused a reservation or released after an error.*)
LeftBehind(p) == IF p.result = "placed" THEN Notional(p.sent) ELSE DecZero

ProjectedNotional(sig, ps) ==
    LET held == PositionSize(ps, sig.token_id)
    IN  DecMul(DecAbs(IF sig.type = "Buy" THEN DecAdd(held, sig.size)
                      ELSE DecSub(held, sig.size)),
               sig.price)

(* C28: with the breaker not tripped, the signal s of an Approved(s) or    *)
(* Reduced(s, _) answer to a Buy/Sell with price > 0 satisfies the order   *)
(* size, position and total exposure limits all at once, keeps the token,  *)
(* side and price of the input and has size <= the input's.                *)
C28_CheckedSignalWithinAllLimits ==
    ( /\ IsSome(last)
      /\ IsTrade(Entry.signal)
      /\ DecGt(Entry.signal.price, DecZero)
      /\ Entry.check \in {"Approved", "Reduced"} )
    => /\ DecLe(Notional(Entry.sent), cfg.limits.max_order_size)
       /\ DecLe(ProjectedNotional(Entry.sent, positions),
                cfg.limits.max_position_size)
       /\ DecLe(DecAdd(Entry.exposure_before, Notional(Entry.sent)),
                cfg.limits.max_total_exposure)
       /\ Entry.sent.token_id = Entry.signal.token_id
       /\ Entry.sent.type = Entry.signal.type
       /\ Entry.sent.price = Entry.signal.price
       /\ DecLe(Entry.sent.size, Entry.signal.size)

(* C29: once a tracked order is Filled or Cancelled (by a fill, a Cancel   *)
(* signal or the shutdown's cancel) and the engine has handled the event,  *)
(* the ledger holds no reservation for it: with no fill waiting in the     *)
(* channel, no closed order has an entry among the confirmed reservations. *)
C29_ClosedOrderLeavesLedger ==
    fills = <<>> =>
        \A id \in DOMAIN orders :
            orders[id].status \in TerminalStatuses => id \notin DOMAIN open_orders

(* C30: a sell fill of size D at price p on a long position s > 0 with     *)
(* D > s realizes s x (p - avg), leaves size -(D - s) and sets             *)
(* avg_entry_price = p; a buy fill on a short position with D > |s| is     *)
(* symmetric; a fill that adds to the position on its side, or opens one   *)
(* from flat, leaves realized_pnl unchanged.                               *)
C30_FlipThroughZero ==
    [][LET now == Unwrap(call')
           fill == now.arg
           before == now.result
           after == positions'[now.token_id]
       IN  now.op = "apply_fill" =>
           /\ ( /\ ~fill.is_buy
                /\ DecGt(before.size, DecZero)
                /\ DecGt(fill.size, before.size) ) =>
                /\ after.realized_pnl =
                       DecAdd(before.realized_pnl,
                              DecMul(before.size,
                                     DecSub(fill.price, before.avg_entry_price)))
                /\ after.size = DecNeg(DecSub(fill.size, before.size))
                /\ after.avg_entry_price = fill.price
           /\ ( /\ fill.is_buy
                /\ DecLt(before.size, DecZero)
                /\ DecGt(fill.size, DecNeg(before.size)) ) =>
                /\ after.realized_pnl =
                       DecAdd(before.realized_pnl,
                              DecMul(DecNeg(before.size),
                                     DecSub(before.avg_entry_price, fill.price)))
                /\ after.size = DecSub(fill.size, DecNeg(before.size))
                /\ after.avg_entry_price = fill.price
           /\ ( \/ fill.is_buy /\ DecGe(before.size, DecZero)
                \/ ~fill.is_buy /\ DecLe(before.size, DecZero) ) =>
                after.realized_pnl = before.realized_pnl
      ]_vars

(* A long position of 10 sold through zero by a fill of 20 at a price      *)
(* other than its entry price: it is short 10 at the fill price with the   *)
(* gain or loss on the 10 realized.                                        *)
C30_Witness ==
    /\ IsSome(call)
    /\ LastCall.op = "apply_fill"
    /\ ~LastCall.arg.is_buy
    /\ LastCall.result.size = DecInt(10)
    /\ LastCall.arg.size = DecInt(20)
    /\ LastCall.arg.price # LastCall.result.avg_entry_price
    /\ positions[LastCall.token_id].size = DecInt(-10)
    /\ positions[LastCall.token_id].avg_entry_price = LastCall.arg.price
    /\ positions[LastCall.token_id].realized_pnl # LastCall.result.realized_pnl

(* A Shutdown is among the signals the loop has handled in this tick.      *)
SawShutdown ==
    /\ IsSome(last)
    /\ \/ Entry.signal.type = "Shutdown"
       \/ IsSome(Entry.prior) /\ First.signal.type = "Shutdown"

(* C31: after a strategy's Shutdown signal the loop goes on with the       *)
(* signals that follow it in the tick, which are risk-checked and          *)
(* submitted as usual, and the engine shuts down at the end of that same   *)
(* tick: the step that leaves the signal loop runs the shutdown and stops  *)
(* the engine, with no further tick counted.                               *)
C31_ShutdownAtEndOfTick ==
    [][(pc = "signals" /\ SawShutdown) =>
         /\ shutdown_requested
         /\ shutdown = [flag |-> FALSE, on_shutdown_calls |-> 0,
                        result |-> "running"]
         /\ tick_count' = tick_count
         /\ IF pc' = "signals"
            THEN /\ signal_index' = signal_index + 1
                 /\ shutdown' = shutdown
                 /\ LET e == Unwrap(last')
                    IN  (IsTrade(e.signal)
                         /\ e.check \in {"Approved", "Reduced"}
                         /\ DecLe(DecAdd(e.exposure_before, Notional(e.sent)),
                                  cfg.limits.max_total_exposure))
                        => e.executed
            ELSE /\ pc' = "stopped"
                 /\ shutdown'.flag]_vars

(* A Buy that follows the Shutdown of its tick is placed.                  *)
C31_Witness ==
    /\ pc = "signals"
    /\ IsSome(last)
    /\ IsSome(Entry.prior)
    /\ First.signal.type = "Shutdown"
    /\ Entry.signal.type = "Buy"
    /\ Entry.result = "placed"
    /\ shutdown_requested

IsPrefix(a, b) == Len(a) <= Len(b) /\ SubSeq(b, 1, Len(a)) = a

NoDuplicates(seq) == \A i, j \in 1..Len(seq) : i # j => seq[i] # seq[j]

StreamIds(stream) == IF IsSome(stream) THEN Unwrap(stream).asset_ids ELSE <<>>

(* C32: a discovery refresh that finds a token not yet subscribed appends  *)
(* it and makes the engine drop its stream and subscribe again, over every *)
(* token subscribed before plus the new ones; a refresh that finds none    *)
(* leaves the stream alone; the reconnect flag is consumed by the handler  *)
(* that set it; subscribed_tokens only grows and holds no duplicate.       *)
C32_NewTokensForceReconnect ==
    [][/\ IsPrefix(subscribed_tokens, subscribed_tokens')
       /\ NoDuplicates(subscribed_tokens')
       /\ ~ws_needs_reconnect'
       /\ IF subscribed_tokens' # subscribed_tokens
          THEN /\ ws_update_count' = 0
               /\ ~warmup_complete'
               /\ IsSome(ws_stream') =>
                    /\ Unwrap(ws_stream').asset_ids = subscribed_tokens'
                    /\ ~Unwrap(ws_stream').errored
          ELSE /\ StreamIds(ws_stream') = StreamIds(ws_stream)
               /\ IsSome(ws_stream') = IsSome(ws_stream)
               /\ ws_update_count' >= ws_update_count
               /\ warmup_complete => warmup_complete']_vars

(* Two refreshes have each found a token and the stream is over all three. *)
C32_Witness ==
    /\ Len(subscribed_tokens) = 3
    /\ IsSome(ws_stream)
    /\ Unwrap(ws_stream).asset_ids = subscribed_tokens
    /\ IsSome(call)
    /\ LastCall.op = "refresh_markets"
    /\ LastCall.result

(* C33: a discovery refresh that fails (either catalog fetch answers with  *)
(* an error) leaves market_info, subscribed_tokens and the reconnect flag  *)
(* exactly as they were, and the engine goes on: the stream, the books,    *)
(* the warmup and the loop's position are untouched; only a refresh that   *)
(* succeeds changes the subscriptions or the market info.                  *)
C33_FailedRefreshChangesNothing ==
    [][/\ ( /\ call' # call
            /\ Unwrap(call').op = "refresh_markets"
            /\ ~Unwrap(call').result ) =>
            /\ UNCHANGED <<subscribed_tokens, market_info, ws_needs_reconnect,
                           ws_stream, books, ws_update_count, warmup_complete>>
            /\ pc' = "select"
       /\ (subscribed_tokens' # subscribed_tokens \/ market_info' # market_info)
            => /\ Unwrap(call').op = "refresh_markets"
               /\ Unwrap(call').result]_vars

(* A refresh has failed after an earlier one had filled market_info and    *)
(* added a token: both are still there and the engine is at its select.    *)
C33_Witness ==
    /\ IsSome(call)
    /\ LastCall.op = "refresh_markets"
    /\ ~LastCall.result
    /\ Len(subscribed_tokens) >= 2
    /\ market_info # EmptyMap
    /\ pc = "select"

(* C34: once the stream has yielded an error element the engine applies no *)
(* further snapshot from it: until a discovery refresh makes it reconnect, *)
(* the books and the update count stay as they are.                        *)
C34_ErroredStreamIsEnded ==
    [][( /\ IsSome(ws_stream)
         /\ Unwrap(ws_stream).errored
         /\ subscribed_tokens' = subscribed_tokens ) =>
           /\ books' = books
           /\ ws_update_count' = ws_update_count]_vars

(* C38: warmup restarts on every reconnection. The reconnect sets the      *)
(* update count to zero and warmup_complete to false, and without          *)
(* skip_warmup a tick that finds fewer than 100 updates on the stream      *)
(* evaluates no strategy and submits no order, also when the engine was    *)
(* trading before the reconnect.                                           *)
C38_WarmupRestartsOnReconnect ==
    [][/\ subscribed_tokens' # subscribed_tokens =>
            (ws_update_count' = 0 /\ ~warmup_complete')
       /\ ( /\ tick_count' # tick_count
            /\ ~cfg.skip_warmup
            /\ ws_update_count < WARMUP_WS_UPDATES ) =>
            /\ pc' # "signals"
            /\ ~warmup_complete'
            /\ orders' = orders]_vars

(* The engine was trading when a refresh made it reconnect, and a tick     *)
(* since then has found the warmup incomplete.                             *)
C38_Witness ==
    /\ IsSome(call)
    /\ LastCall.op = "refresh_markets"
    /\ LastCall.arg.warmup_complete
    /\ LastCall.arg.tick_count < tick_count
    /\ ~cfg.skip_warmup
    /\ ~warmup_complete
    /\ ws_update_count < WARMUP_WS_UPDATES
    /\ pc = "select"

(* C35: the number of open orders the risk manager tracks never exceeds    *)
(* RiskLimits.max_open_orders, and a Buy/Sell checked while that many      *)
(* orders are open is rejected.                                            *)
C35_OpenOrdersWithinLimit ==
    /\ TotalOpenOrders(open_orders) <= cfg.limits.max_open_orders
    /\ ( /\ IsSome(call)
         /\ LastCall.op = "check_signal"
         /\ TotalOpenOrders(open_orders) >= cfg.limits.max_open_orders )
       => LastCall.result.tag = "Rejected"

----------------------------------------------------------------------------
(* The engine with an exchange that fills orders in parts: a fill covers   *)
(* half of the order or all of what is left of it.                         *)

PartialFillSizes(order) ==
    {DecDiv(order.size, DecInt(2)), DecSub(order.size, order.filled_size)}

InitPartial == Init /\ cfg = LiveConfig

NextPartial ==
    \/ Tick
    \/ \E sig \in StrategySignals : ProcessSignal(sig)
    \/ EndTick
    \/ FillReceived
    \/ \E t \in Tokens, update \in WsSnapshots : BookUpdate(t, update)
    \/ Interrupt
    \/ \E id \in DOMAIN orders :
         \E size \in PartialFillSizes(orders[id]) : ProcessFill(id, size)

SpecPartial == InitPartial /\ [][NextPartial]_vars

(* The part of an order the exchange has not filled, at its limit price.   *)
RemainderNotional(order) ==
    DecMul(DecSub(order.size, order.filled_size), order.price)

(* C36: when the fill handler has processed a fill of a tracked order that *)
(* leaves part of the order unfilled, current_exposure still counts the    *)
(* notional of the unfilled remainder on top of the positions.             *)
C36_PartialFillKeepsRemainder ==
    [][( /\ fills # <<>>
         /\ fills' = Tail(fills)
         /\ Head(fills).order_id \in DOMAIN orders
         /\ Head(fills).order_id \in DOMAIN open_orders
         /\ orders[Head(fills).order_id].status = "PartiallyFilled" ) =>
         DecGe(CurrentExposure(positions', open_orders'),
               DecAdd(TotalNotional(positions'),
                      RemainderNotional(orders[Head(fills).order_id])))]_vars

(* The orders a step marks Cancelled.                                      *)
NewlyCancelled ==
    {id \in DOMAIN orders : /\ orders[id].status # "Cancelled"
                            /\ orders'[id].status = "Cancelled"}

(* The call the step made is a cancellation that covers the order.         *)
CancelCallCovers(c, order) ==
    \/ c.op = "cancel_order"
    \/ c.op = "cancel_all_orders"
    \/ c.op = "cancel_all" /\ c.token_id = order.token_id
    \/ /\ c.op = "execute"
       /\ c.arg.type = "Cancel"
       /\ c.token_id = order.token_id

(* C37: an order becomes Cancelled only in a cancellation whose exchange   *)
(* call succeeded. A failed cancel_order and a failed batched cancel of    *)
(* cancel_all_orders change no order; a cancel_all that fails part-way     *)
(* leaves at least one of the token's orders active and marks only orders  *)
(* that were active; a Filled or Cancelled order is never cancelled again. *)
C37_CancelledOnlyAfterExchangeCancel ==
    [][/\ \A id \in NewlyCancelled :
            /\ IsActive(orders[id])
            /\ IsSome(call')
            /\ CancelCallCovers(Unwrap(call'), orders[id])
            /\ Unwrap(call').op = "cancel_order" =>
                 /\ Unwrap(call').token_id = id
                 /\ Unwrap(call').result
            /\ Unwrap(call').op = "cancel_all_orders" => Unwrap(call').result
       /\ ( /\ IsSome(call')
            /\ Unwrap(call').op \in {"cancel_order", "cancel_all_orders"}
            /\ ~Unwrap(call').result ) => orders' = orders
       /\ ( /\ IsSome(call')
            /\ Unwrap(call').op = "cancel_all" ) =>
            ( Unwrap(call').result <=>
                ToCancel(orders', Unwrap(call').token_id) = {} )]_vars

(* A cancel_all has failed part-way: one order of the token is Cancelled   *)
(* and another is still active.                                            *)
C37_Witness ==
    /\ IsSome(call)
    /\ LastCall.op = "cancel_all"
    /\ ~LastCall.result
    /\ \E id \in DOMAIN orders : orders[id].status = "Cancelled"
    /\ ToCancel(orders, LastCall.token_id) # {}

(* The book on_tick read has 0 < best bid < best ask < 1.                   *)
OrdinaryBook(book) ==
    /\ IsSome(BestBid(book))
    /\ IsSome(BestAsk(book))
    /\ DecGt(Unwrap(BestBid(book)).price, DecZero)
    /\ DecLt(Unwrap(BestBid(book)).price, Unwrap(BestAsk(book)).price)
    /\ DecLt(Unwrap(BestAsk(book)).price, DecInt(1))

(* C39: for a book with 0 < bid < ask < 1 and a position within            *)
(* +/- MAX_POSITION, every Buy and Sell MarketMaker.on_tick emits has its  *)
(* price in [0.01, 0.99], and when it emits both, the Buy price is below   *)
(* the Sell price.                                                         *)
C39_QuotesWithinPriceBand ==
    ( /\ IsSome(call)
      /\ LastCall.op = "market_maker.on_tick"
      /\ LastCall.token_id \in DOMAIN books
      /\ OrdinaryBook(books[LastCall.token_id])
      /\ DecLe(DecAbs(LastCall.arg), MAX_POSITION) ) =>
        LET signals == LastCall.result
        IN  /\ \A i \in 1..Len(signals) :
                 signals[i].type \in {"Buy", "Sell"} =>
                     /\ DecGe(signals[i].price, Dec(1, 100))
                     /\ DecLe(signals[i].price, Dec(99, 100))
            /\ \A i, j \in 1..Len(signals) :
                 (signals[i].type = "Buy" /\ signals[j].type = "Sell") =>
                     DecLt(signals[i].price, signals[j].price)

----------------------------------------------------------------------------
(* Cooperative shutdown. The task spawned at the start of run waits for    *)
(* ctrl-c and sends one message on the shutdown channel; shutdown_rx       *)
(* counts the messages sent. The loop's shutdown branch is ready once a    *)
(* message is there. The run has no tick limit, so the timer never stops:  *)
(* tick_count is then only logged and the model stops counting it at       *)
(* MaxTickCount.                                                           *)

ShutdownSignals == {Hold, ShutdownSignal, Buy("t1", Dec(1, 2), DecInt(50))}

ShutdownFetches == {Err, Ok(<<>>)}

InitShutdown == Init /\ cfg = LiveConfig

CtrlC ==
    /\ shutdown_rx = 0
    /\ pc # "stopped"
    /\ shutdown_rx' = 1
    /\ UNCHANGED <<loop_vars, risk_vars, order_vars, api_vars, positions, books,
                   subscribed_tokens, market_info, ws_needs_reconnect,
                   ws_stream>>

(* shutdown_rx.recv() never completing.                                    *)
ShutdownRecvPending(rx) == FALSE

ShutdownRecvReady(rx) == rx > 0

ShutdownRecv ==
    /\ ShutdownRecvReady(shutdown_rx)
    /\ Interrupt

TickOn ==
    /\ pc = "select"
    /\ cfg.max_ticks = 0
    /\ tick_count >= MaxTickCount
    /\ TickHandler(tick_count)

NextShutdown ==
    \/ CtrlC
    \/ ShutdownRecv
    \/ Tick
    \/ TickOn
    \/ \E sig \in ShutdownSignals : ProcessSignal(sig)
    \/ EndTick
    \/ FillReceived
    \/ \E t \in Tokens, update \in WsSnapshots : BookUpdate(t, update)
    \/ \E e \in ShutdownFetches, r \in ShutdownFetches :
         DiscoveryRefresh(e, r, TRUE)
    \/ \E id \in DOMAIN orders :
         \E size \in FillSizes(orders[id]) : ProcessFill(id, size)

(* tokio::select! picks at random among the branches that are ready, so a  *)
(* branch that is ready again and again is taken; a handler that has       *)
(* started runs to its end.                                                *)
SelectFairness ==
    /\ SF_vars(ShutdownRecv)
    /\ WF_vars(EndTick)

SpecShutdown == InitShutdown /\ [][NextShutdown]_vars /\ SelectFairness

(* C40: once the interrupt is on the shutdown channel, the engine          *)
(* eventually runs shutdown() and leaves the run loop, whatever ticks,     *)
(* fills, book updates and refreshes are ready as well; and once           *)
(* shutdown() has started no order is submitted.                           *)
C40_InterruptLeadsToShutdown ==
    /\ (shutdown_rx > 0) ~> (shutdown.flag /\ pc = "stopped")
    /\ [][shutdown.flag =>
            /\ next_order_id' = next_order_id
            /\ DOMAIN orders' = DOMAIN orders
            /\ DOMAIN open_orders' \subseteq DOMAIN open_orders]_vars

(* The interrupt was delivered in a run that had placed an order and kept  *)
(* ticking, and the shutdown branch, not a Shutdown signal, has ended it.   *)
C40_Witness ==
    /\ shutdown_rx > 0
    /\ shutdown.flag
    /\ pc = "stopped"
    /\ ~shutdown_requested
    /\ tick_count >= MaxTickCount
    /\ orders # EmptyMap

====
